---- MODULE Spec2Model ----
(***************************************************************************)
(* A model of the knowledge-base query engine (lib/searchParser):          *)
(* SearchParser.parse and SearchParser.filter, over strings represented as *)
(* sequences of one-character strings.                                     *)
(***************************************************************************)
EXTENDS Integers, Sequences, FiniteSets, TLC

VARIABLES
    query,      \* the raw query string handed to SearchParser.parse
    parsed,     \* the ParsedQuery in hand
    items,      \* the record collection (ContentItem[])
    result,     \* the last output of SearchParser.filter
    base,       \* the output of the previous SearchParser.filter call
    target,     \* the text handed to SearchParser.highlight, or the suggestion run
    output,     \* the last output of validateQuery, highlight or getSuggestions
    timeZone,   \* the local time zone of the runtime, in minutes east of UTC
    app,        \* the other state of the App component: filters, sortConfig,
                \* previewItem, previewOpen, and the number of items added
    op          \* the last operation performed

vars == <<query, parsed, items, result, base, target, output, timeZone, app, op>>

(***************************************************************************)
(* Characters and the JavaScript string primitives the engine uses.        *)
(***************************************************************************)
LowerLetters ==
    <<"a","b","c","d","e","f","g","h","i","j","k","l","m",
      "n","o","p","q","r","s","t","u","v","w","x","y","z">>

UpperLetters ==
    <<"A","B","C","D","E","F","G","H","I","J","K","L","M",
      "N","O","P","Q","R","S","T","U","V","W","X","Y","Z">>

DigitChars == {"0","1","2","3","4","5","6","7","8","9"}

WordChars ==
    {LowerLetters[i] : i \in DOMAIN LowerLetters}
        \cup {UpperLetters[i] : i \in DOMAIN UpperLetters}
        \cup DigitChars \cup {"_"}

SpaceChars == {" ", "\t", "\n", "\r"}

QuoteChars == {"\"", "'"}

CmpChars == {">", "<", "=", "!"}

\* \w
IsWordChar(c) == c \in WordChars

\* \s
IsSpace(c) == c \in SpaceChars

\* [><=!]
IsCmp(c) == c \in CmpChars

\* ["']
IsQuote(c) == c \in QuoteChars

Min(S) == CHOOSE x \in S : \A y \in S : x <= y

toLowerCaseChar(c) ==
    IF \E i \in DOMAIN UpperLetters : UpperLetters[i] = c
    THEN LowerLetters[CHOOSE i \in DOMAIN UpperLetters : UpperLetters[i] = c]
    ELSE c

toUpperCaseChar(c) ==
    IF \E i \in DOMAIN LowerLetters : LowerLetters[i] = c
    THEN UpperLetters[CHOOSE i \in DOMAIN LowerLetters : LowerLetters[i] = c]
    ELSE c

toLowerCase(s) == [i \in DOMAIN s |-> toLowerCaseChar(s[i])]

toUpperCase(s) == [i \in DOMAIN s |-> toUpperCaseChar(s[i])]

\* The end (first position not in the run) of the greedy run of characters
\* of class C that starts at position i of s: [C]+ or [C]*.
SpanIn(s, i, C) ==
    LET stops == {j \in i..Len(s) : s[j] \notin C}
    IN  IF stops = {} THEN Len(s) + 1 ELSE Min(stops)

\* The same for the negated class: [^C]+ or [^C]*.
SpanNotIn(s, i, C) ==
    LET stops == {j \in i..Len(s) : s[j] \in C}
    IN  IF stops = {} THEN Len(s) + 1 ELSE Min(stops)

RECURSIVE trimStart(_)
trimStart(s) ==
    IF s # <<>> /\ IsSpace(Head(s)) THEN trimStart(Tail(s)) ELSE s

RECURSIVE trimEnd(_)
trimEnd(s) ==
    IF s # <<>> /\ IsSpace(s[Len(s)])
    THEN trimEnd(SubSeq(s, 1, Len(s) - 1))
    ELSE s

\* String.prototype.trim
trim(s) == trimEnd(trimStart(s))

\* s.replace(/\s+/g, ' ')
RECURSIVE collapseSpaces(_)
collapseSpaces(s) ==
    IF s = <<>> THEN <<>>
    ELSE IF IsSpace(Head(s))
         THEN <<" ">> \o collapseSpaces(trimStart(s))
         ELSE <<Head(s)>> \o collapseSpaces(Tail(s))

\* query.trim().replace(/\s+/g, ' ')
normalize(q) == collapseSpaces(trim(q))

\* String.prototype.indexOf(m): 1-based, 0 when m does not occur in s
indexOf(s, m) ==
    LET at == {i \in 1..(Len(s) - Len(m) + 1) : SubSeq(s, i, i + Len(m) - 1) = m}
    IN  IF at = {} THEN 0 ELSE Min(at)

\* String.prototype.includes
includes(s, m) == indexOf(s, m) # 0

\* s.replace(m, '') with a string pattern: the first occurrence only
removeFirst(s, m) ==
    LET i == indexOf(s, m)
    IN  IF i = 0 THEN s
        ELSE SubSeq(s, 1, i - 1) \o SubSeq(s, i + Len(m), Len(s))

\* String.prototype.split(sep), sep one character
RECURSIVE split(_, _)
split(s, sep) ==
    LET at == {i \in 1..Len(s) : s[i] = sep}
    IN  IF at = {} THEN <<s>>
        ELSE <<SubSeq(s, 1, Min(at) - 1)>>
                 \o split(SubSeq(s, Min(at) + 1, Len(s)), sep)

(***************************************************************************)
(* The clause pattern                                                      *)
(*   /(\w+):\s*([^\s]+(?:\s+[^\s:]+)*?)(?=\s+\w+:|$)/g                     *)
(* as a backtracking matcher.  Positions are 1-based; an end is the first  *)
(* position after the match; 0 means no match.                             *)
(***************************************************************************)

\* (?=\s+\w+:|$) at position e
fieldLookahead(s, e) ==
    \/ e = Len(s) + 1
    \/ /\ e <= Len(s)
       /\ IsSpace(s[e])
       /\ LET a == SpanIn(s, e, SpaceChars)
              w == SpanIn(s, a, WordChars)
          IN  w > a /\ w <= Len(s) /\ s[w] = ":"

\* valueTailEnd with the value ending at its first word
valueTailEndOneWord(s, e) ==
    IF fieldLookahead(s, e) THEN e ELSE 0

\* (?:\s+[^\s:]+)*? then the lookahead, from position e: the lazy group adds
\* one more space-separated word only when the lookahead fails where it is.
RECURSIVE valueTailEnd(_, _)
valueTailEnd(s, e) ==
    IF fieldLookahead(s, e) THEN e
    ELSE IF e > Len(s) \/ ~IsSpace(s[e]) THEN 0
    ELSE LET a == SpanIn(s, e, SpaceChars)
             b == SpanNotIn(s, a, SpaceChars \cup {":"})
         IN  IF b = a THEN 0 ELSE valueTailEnd(s, b)

\* one attempt of the whole pattern at start position i
fieldMatchEnd(s, i) ==
    LET w == SpanIn(s, i, WordChars)
    IN  IF w = i \/ w > Len(s) \/ s[w] # ":" THEN 0
        ELSE LET p == SpanIn(s, w + 1, SpaceChars)
                 c == SpanNotIn(s, p, SpaceChars)
             IN  IF c = p THEN 0 ELSE valueTailEnd(s, c)

\* normalizedQuery.match(/.../g): the matched substrings, left to right,
\* each search resuming where the previous match ended
RECURSIVE matchFrom(_, _)
matchFrom(s, i) ==
    IF i > Len(s) THEN <<>>
    ELSE LET e == fieldMatchEnd(s, i)
         IN  IF e = 0 THEN matchFrom(s, i + 1)
             ELSE <<SubSeq(s, i, e - 1)>> \o matchFrom(s, e)

fieldMatches(s) == matchFrom(s, 1)

\* value.replace(/^["']|["']$/g, '')
stripQuotes(v) ==
    LET h == IF v # <<>> /\ IsQuote(Head(v)) THEN Tail(v) ELSE v
    IN  IF h # <<>> /\ IsQuote(h[Len(h)]) THEN SubSeq(h, 1, Len(h) - 1) ELSE h

\* value.match(/([><=!]+)(.+)/): <<>> for null, else <<[operator, value]>>.
\* The pattern is not anchored; the greedy operator run gives back its last
\* character when nothing follows it.
dateMatch(v) ==
    LET starts == {j \in 1..Len(v) : IsCmp(v[j])}
    IN  IF starts = {} THEN <<>>
        ELSE LET j == Min(starts)
                 r == SpanIn(v, j, CmpChars)
             IN  IF r <= Len(v)
                 THEN <<[operator |-> SubSeq(v, j, r - 1),
                         value |-> SubSeq(v, r, Len(v))]>>
                 ELSE IF r - j >= 2
                 THEN <<[operator |-> SubSeq(v, j, r - 2),
                         value |-> SubSeq(v, r - 1, Len(v))]>>
                 ELSE <<>>

(***************************************************************************)
(* ParsedQuery.  A field value is a string or a string array; fullText is  *)
(* optional: <<>> when absent, <<text>> when set.                          *)
(***************************************************************************)
Str(s) == [kind |-> "string", str |-> s, arr |-> <<>>]

Arr(a) == [kind |-> "array", str |-> <<>>, arr |-> a]

EmptyFields == [k \in {} |-> Str(<<>>)]

\* setField with the first write kept instead of the last
setFieldKeepFirst(fields, k, v) ==
    [x \in DOMAIN fields \cup {k} |-> IF x \in DOMAIN fields THEN fields[x] ELSE v]

\* result.fields[field] = value
setField(fields, k, v) ==
    [x \in DOMAIN fields \cup {k} |-> IF x = k THEN v ELSE fields[x]]

W_created == <<"c","r","e","a","t","e","d">>
W_updated == <<"u","p","d","a","t","e","d">>
W_tags == <<"t","a","g","s">>
W_title == <<"t","i","t","l","e">>
W_content == <<"c","o","n","t","e","n","t">>
W_type == <<"t","y","p","e">>

\* const result: ParsedQuery = { fields: {}, operators: [], dateFilters: [] }
emptyResult ==
    [fields |-> EmptyFields, operators |-> <<>>, dateFilters |-> <<>>,
     fullText |-> <<>>]

\* const field = match.substring(0, colonIndex).trim()
matchField(match) ==
    trim(SubSeq(match, 1, indexOf(match, <<":">>) - 1))

\* let value = match.substring(colonIndex + 1).trim(), quotes removed
matchValue(match) ==
    stripQuotes(trim(SubSeq(match, indexOf(match, <<":">>) + 1, Len(match))))

\* classify with the tags value never split on commas
classifyTagsUnsplit(res, match) ==
    LET field == matchField(match)
        value == matchValue(match)
    IN  IF field = W_created \/ field = W_updated
        THEN LET dm == dateMatch(value)
             IN  IF dm # <<>>
                 THEN [res EXCEPT !.dateFilters =
                          Append(@, [field |-> field,
                                     operator |-> dm[1].operator,
                                     value |-> trim(dm[1].value)])]
                 ELSE res
        ELSE [res EXCEPT !.fields = setField(@, field, Str(value))]

\* the body of fieldMatches.forEach: one clause classified into the result
classify(res, match) ==
    LET field == matchField(match)
        value == matchValue(match)
    IN  IF field = W_created \/ field = W_updated
        THEN LET dm == dateMatch(value)
             IN  IF dm # <<>>
                 THEN [res EXCEPT !.dateFilters =
                          Append(@, [field |-> field,
                                     operator |-> dm[1].operator,
                                     value |-> trim(dm[1].value)])]
                 ELSE res
        ELSE IF field = W_tags
        THEN IF includes(value, <<",">>)
             THEN [res EXCEPT !.fields =
                      setField(@, field,
                          Arr([i \in DOMAIN split(value, ",") |->
                                  trim(split(value, ",")[i])]))]
             ELSE [res EXCEPT !.fields = setField(@, field, Str(value))]
        ELSE [res EXCEPT !.fields = setField(@, field, Str(value))]

RECURSIVE classifyAll(_, _)
classifyAll(res, ms) ==
    IF ms = <<>> THEN res ELSE classifyAll(classify(res, Head(ms)), Tail(ms))

\* fieldMatches.forEach(match => remainingQuery = remainingQuery.replace(match, ''))
RECURSIVE removeMatches(_, _)
removeMatches(s, ms) ==
    IF ms = <<>> THEN s ELSE removeMatches(removeFirst(s, Head(ms)), Tail(ms))

Keywords == << <<"A","N","D">>, <<"O","R">>, <<"N","O","T">> >>

\* \b at position p (between s[p-1] and s[p])
wordBoundary(s, p) ==
    (p > 1 /\ p - 1 <= Len(s) /\ IsWordChar(s[p - 1]))
        # (p >= 1 /\ p <= Len(s) /\ IsWordChar(s[p]))

\* /\b(AND|OR|NOT)\b/i at position i: the length matched, 0 for none
keywordAt(s, i) ==
    LET hits == {k \in DOMAIN Keywords :
                    /\ i + Len(Keywords[k]) - 1 <= Len(s)
                    /\ toUpperCase(SubSeq(s, i, i + Len(Keywords[k]) - 1))
                           = Keywords[k]
                    /\ wordBoundary(s, i)
                    /\ wordBoundary(s, i + Len(Keywords[k]))}
    IN  IF hits = {} THEN 0 ELSE Len(Keywords[Min(hits)])

\* remainingQuery.match(/\b(AND|OR|NOT)\b/gi)
RECURSIVE operatorMatches(_, _)
operatorMatches(s, i) ==
    IF i > Len(s) THEN <<>>
    ELSE IF keywordAt(s, i) = 0 THEN operatorMatches(s, i + 1)
    ELSE <<SubSeq(s, i, i + keywordAt(s, i) - 1)>>
             \o operatorMatches(s, i + keywordAt(s, i))

\* remainingQuery.replace(/\b(AND|OR|NOT)\b/gi, '')
RECURSIVE removeOperators(_, _)
removeOperators(s, i) ==
    IF i > Len(s) THEN <<>>
    ELSE IF keywordAt(s, i) = 0 THEN <<s[i]>> \o removeOperators(s, i + 1)
    ELSE removeOperators(s, i + keywordAt(s, i))

\* parse with the connective scan also run when no clause was found
parseScanAlways(q) ==
    LET normalizedQuery == normalize(q)
        ms == fieldMatches(normalizedQuery)
        res == classifyAll(emptyResult, ms)
        remainingQuery == removeMatches(normalizedQuery, ms)
        operatorMs == operatorMatches(remainingQuery, 1)
        rest == IF operatorMs # <<>>
                THEN trim(removeOperators(remainingQuery, 1))
                ELSE remainingQuery
    IN  [res EXCEPT
           !.operators = [i \in DOMAIN operatorMs |-> toUpperCase(operatorMs[i])],
           !.fullText = IF trim(rest) # <<>> THEN <<trim(rest)>> ELSE <<>>]

\* SearchParser.parse
parse(q) ==
    LET normalizedQuery == normalize(q)
        ms == fieldMatches(normalizedQuery)
    IN  IF ms # <<>>
        THEN LET res == classifyAll(emptyResult, ms)
                 remainingQuery == removeMatches(normalizedQuery, ms)
                 operatorMs == operatorMatches(remainingQuery, 1)
                 rest == IF operatorMs # <<>>
                         THEN trim(removeOperators(remainingQuery, 1))
                         ELSE remainingQuery
             IN  [res EXCEPT
                    !.operators = [i \in DOMAIN operatorMs |->
                                      toUpperCase(operatorMs[i])],
                    !.fullText = IF trim(rest) # <<>> THEN <<trim(rest)>>
                                 ELSE <<>>]
        ELSE [emptyResult EXCEPT !.fullText = <<normalizedQuery>>]

(***************************************************************************)
(* Records (ContentItem).  content is optional: <<>> when absent, <<text>> *)
(* when set.  Timestamps are ISO strings, read with new Date(...).         *)
(***************************************************************************)
T_ReactBestPractices ==
    <<"R","e","a","c","t"," ","B","e","s","t"," ",
      "P","r","a","c","t","i","c","e","s">>
T_DesignDocs == <<"D","e","s","i","g","n"," ","D","o","c","s">>
W_react == <<"r","e","a","c","t">>
W_frontend == <<"f","r","o","n","t","e","n","d">>
W_design == <<"d","e","s","i","g","n">>
W_note == <<"n","o","t","e">>
W_document == <<"d","o","c","u","m","e","n","t">>
D_Jan15 ==
    <<"2","0","2","4","-","0","1","-","1","5","T",
      "1","0",":","3","0",":","0","0","Z">>
D_Jan14 ==
    <<"2","0","2","4","-","0","1","-","1","4","T",
      "1","4",":","2","0",":","0","0","Z">>
D_Jan01 == <<"2","0","2","4","-","0","1","-","0","1">>
D_Jan15Day == <<"2","0","2","4","-","0","1","-","1","5">>
D_Jan13 ==
    <<"2","0","2","4","-","0","1","-","1","3","T","0","9",":","1","5",":",
      "0","0","Z">>
D_Jan12 ==
    <<"2","0","2","4","-","0","1","-","1","2","T","1","6",":","0","0",":",
      "0","0","Z">>
D_Jan11 ==
    <<"2","0","2","4","-","0","1","-","1","1","T","1","1",":","4","5",":",
      "0","0","Z">>
D_Jan13Start ==
    <<"2","0","2","4","-","0","1","-","1","3","T","0","0",":","0","0",":",
      "0","0",".","0","0","0","Z">>
D_Feb01 ==
    <<"2","0","2","4","-","0","2","-","0","1","T","0","8",":","0","0",":",
      "0","0",".","0","0","0","Z">>
D_Feb02 ==
    <<"2","0","2","4","-","0","2","-","0","2","T","0","8",":","0","0",":",
      "0","0",".","0","0","0","Z">>
D_Jan14Late ==
    <<"2","0","2","4","-","0","1","-","1","4","T","2","3",":","3","0",":",
      "0","0","Z">>

\* the time value of an Invalid Date
NaN == -1

\* new Date(text).getTime(), in minutes since 2024-01-01T00:00Z, for the
\* timestamps the model uses; any other text the model uses is no date.
DateValue(text) ==
    CASE text = D_Jan15 -> 14 * 24 * 60 + 10 * 60 + 30
      [] text = D_Jan14 -> 13 * 24 * 60 + 14 * 60 + 20
      [] text = D_Jan01 -> 0
      [] text = D_Jan15Day -> 14 * 24 * 60
      [] text = D_Jan14Late -> 13 * 24 * 60 + 23 * 60 + 30
      [] text = D_Jan13 -> 12 * 24 * 60 + 9 * 60 + 15
      [] text = D_Jan12 -> 11 * 24 * 60 + 16 * 60
      [] text = D_Jan11 -> 10 * 24 * 60 + 11 * 60 + 45
      [] text = D_Jan13Start -> 12 * 24 * 60
      [] text = D_Feb01 -> 31 * 24 * 60 + 8 * 60
      [] text = D_Feb02 -> 32 * 24 * 60 + 8 * 60
      [] OTHER -> NaN

\* Date.prototype.toDateString, as the calendar day in the local time zone,
\* or "Invalid Date"
toDateString(t) == IF t = NaN THEN NaN ELSE (t + timeZone) \div (24 * 60)

\* the relational operators on Dates: false when either side is invalid
dateGreater(a, b) == a # NaN /\ b # NaN /\ a > b
dateLess(a, b) == a # NaN /\ b # NaN /\ a < b
dateGreaterEq(a, b) == a # NaN /\ b # NaN /\ a >= b
dateLessEq(a, b) == a # NaN /\ b # NaN /\ a <= b

\* the App component's state where the model does not run the component
NoApp == <<>>

\* the records of the specification's end-to-end example
R1 ==
    [id |-> 1, title |-> T_ReactBestPractices, content |-> <<>>,
     tags |-> <<W_react, W_frontend>>, contentType |-> W_note,
     createdAt |-> D_Jan15, updatedAt |-> D_Jan15]

R2 ==
    [id |-> 2, title |-> T_DesignDocs, content |-> <<>>,
     tags |-> <<W_design>>, contentType |-> W_document,
     createdAt |-> D_Jan14, updatedAt |-> D_Jan14]

SpecRecords == <<R1, R2>>

(***************************************************************************)
(* SearchParser.filter                                                     *)
(***************************************************************************)

\* fieldPredicate with an entry of an unrecognized name rejecting every record
fieldPredicateStrict(item, field, value) ==
    CASE field = W_title ->
            value.kind = "string" =>
                includes(toLowerCase(item.title), toLowerCase(value.str))
      [] field = W_content ->
            (value.kind = "string" /\ item.content # <<>>
                /\ item.content[1] # <<>>) =>
                includes(toLowerCase(item.content[1]), toLowerCase(value.str))
      [] field = W_type ->
            value.kind = "string" => item.contentType = value.str
      [] field = W_tags ->
            IF value.kind = "string"
            THEN \E t \in DOMAIN item.tags :
                    includes(toLowerCase(item.tags[t]), toLowerCase(value.str))
            ELSE \E v \in DOMAIN value.arr : \E t \in DOMAIN item.tags :
                    includes(toLowerCase(item.tags[t]),
                             toLowerCase(value.arr[v]))
      [] OTHER -> FALSE

\* the switch over one entry of parsedQuery.fields
fieldPredicate(item, field, value) ==
    CASE field = W_title ->
            value.kind = "string" =>
                includes(toLowerCase(item.title), toLowerCase(value.str))
      [] field = W_content ->
            (value.kind = "string" /\ item.content # <<>>
                /\ item.content[1] # <<>>) =>
                includes(toLowerCase(item.content[1]), toLowerCase(value.str))
      [] field = W_type ->
            value.kind = "string" => item.contentType = value.str
      [] field = W_tags ->
            IF value.kind = "string"
            THEN \E t \in DOMAIN item.tags :
                    includes(toLowerCase(item.tags[t]), toLowerCase(value.str))
            ELSE \E v \in DOMAIN value.arr : \E t \in DOMAIN item.tags :
                    includes(toLowerCase(item.tags[t]),
                             toLowerCase(value.arr[v]))
      [] OTHER -> TRUE

\* datePredicate with = comparing the full timestamps
datePredicateEqualInstant(item, dateFilter) ==
    LET itemDate == DateValue(IF dateFilter.field = W_created
                              THEN item.createdAt ELSE item.updatedAt)
        filterDate == DateValue(dateFilter.value)
    IN  CASE dateFilter.operator = <<">">> -> dateGreater(itemDate, filterDate)
          [] dateFilter.operator = <<"<">> -> dateLess(itemDate, filterDate)
          [] dateFilter.operator = <<">","=">> ->
                dateGreaterEq(itemDate, filterDate)
          [] dateFilter.operator = <<"<","=">> ->
                dateLessEq(itemDate, filterDate)
          [] dateFilter.operator = <<"=">> ->
                itemDate # NaN /\ itemDate = filterDate
          [] OTHER -> TRUE

\* the switch over one entry of parsedQuery.dateFilters
datePredicate(item, dateFilter) ==
    LET itemDate == DateValue(IF dateFilter.field = W_created
                              THEN item.createdAt ELSE item.updatedAt)
        filterDate == DateValue(dateFilter.value)
    IN  CASE dateFilter.operator = <<">">> -> dateGreater(itemDate, filterDate)
          [] dateFilter.operator = <<"<">> -> dateLess(itemDate, filterDate)
          [] dateFilter.operator = <<">","=">> ->
                dateGreaterEq(itemDate, filterDate)
          [] dateFilter.operator = <<"<","=">> ->
                dateLessEq(itemDate, filterDate)
          [] dateFilter.operator = <<"=">> ->
                toDateString(itemDate) = toDateString(filterDate)
          [] OTHER -> TRUE

\* the full-text check: title, content (when present) or any tag
fullTextPredicate(item, fullText) ==
    (fullText # <<>> /\ fullText[1] # <<>>) =>
        LET searchText == toLowerCase(fullText[1])
        IN  \/ includes(toLowerCase(item.title), searchText)
            \/ /\ item.content # <<>>
               /\ item.content[1] # <<>>
               /\ includes(toLowerCase(item.content[1]), searchText)
            \/ \E t \in DOMAIN item.tags :
                  includes(toLowerCase(item.tags[t]), searchText)

\* matchesItem without the full-text check
matchesItemNoFullText(item, parsedQuery) ==
    /\ \A f \in DOMAIN parsedQuery.fields :
          fieldPredicate(item, f, parsedQuery.fields[f])
    /\ \A d \in DOMAIN parsedQuery.dateFilters :
          datePredicate(item, parsedQuery.dateFilters[d])

\* matchesItem with the full-text check or-ed in instead of and-ed
matchesItemOrFullText(item, parsedQuery) ==
    \/ /\ \A f \in DOMAIN parsedQuery.fields :
             fieldPredicate(item, f, parsedQuery.fields[f])
       /\ \A d \in DOMAIN parsedQuery.dateFilters :
             datePredicate(item, parsedQuery.dateFilters[d])
    \/ /\ parsedQuery.fullText # <<>>
       /\ parsedQuery.fullText[1] # <<>>
       /\ fullTextPredicate(item, parsedQuery.fullText)

\* the callback of items.filter: matches starts true and every active
\* predicate is and-ed into it
matchesItem(item, parsedQuery) ==
    /\ \A f \in DOMAIN parsedQuery.fields :
          fieldPredicate(item, f, parsedQuery.fields[f])
    /\ \A d \in DOMAIN parsedQuery.dateFilters :
          datePredicate(item, parsedQuery.dateFilters[d])
    /\ fullTextPredicate(item, parsedQuery.fullText)

RECURSIVE reverse(_)
reverse(list) ==
    IF list = <<>> THEN <<>> ELSE reverse(Tail(list)) \o <<Head(list)>>

\* filter with the kept records collected in reverse order
filterReversed(list, parsedQuery) ==
    LET keep(item) == matchesItem(item, parsedQuery)
    IN  reverse(SelectSeq(list, keep))

\* SearchParser.filter
filter(list, parsedQuery) ==
    LET keep(item) == matchesItem(item, parsedQuery)
    IN  SelectSeq(list, keep)

(***************************************************************************)
(* SearchParser.validateQuery                                              *)
(***************************************************************************)

\* const validFields = ['title', 'content', 'tags', 'type', 'created', 'updated']
validFields == <<W_title, W_content, W_tags, W_type, W_created, W_updated>>

\* 'Query cannot be empty'
E_QueryCannotBeEmpty ==
    <<"Q","u","e","r","y"," ","c","a","n","n","o","t"," ","b","e"," ","e",
      "m","p","t","y">>

\* 'Unmatched quotes in query'
E_UnmatchedQuotes ==
    <<"U","n","m","a","t","c","h","e","d"," ","q","u","o","t","e","s"," ",
      "i","n"," ","q","u","e","r","y">>

\* 'Invalid field(s): '
E_InvalidFields ==
    <<"I","n","v","a","l","i","d"," ","f","i","e","l","d","(","s",")",":",
      " ">>

\* '. Valid fields: '
E_ValidFields ==
    <<"."," ","V","a","l","i","d"," ","f","i","e","l","d","s",":"," ">>

\* Array.prototype.join(sep)
RECURSIVE join(_, _)
join(list, sep) ==
    IF list = <<>> THEN <<>>
    ELSE IF Len(list) = 1 THEN list[1]
    ELSE list[1] \o sep \o join(Tail(list), sep)

\* query.match(/"/g): the positions of the double quotes
quoteMatches(q) == {i \in DOMAIN q : q[i] = "\""}

\* validatorMatches without the g flag: the first match only
RECURSIVE validatorMatchesFirstOnly(_, _)
validatorMatchesFirstOnly(q, i) ==
    IF i > Len(q) THEN <<>>
    ELSE IF ~IsWordChar(q[i]) THEN validatorMatchesFirstOnly(q, i + 1)
    ELSE LET e == SpanIn(q, i, WordChars)
         IN  IF e <= Len(q) /\ q[e] = ":"
             THEN <<SubSeq(q, i, e)>>
             ELSE validatorMatchesFirstOnly(q, e)

\* query.match(/(\w+):/g): the matches from position i on, left to right.
\* A run of word characters matches from its first character when ':'
\* follows it, and from none of its characters otherwise.
RECURSIVE validatorMatches(_, _)
validatorMatches(q, i) ==
    IF i > Len(q) THEN <<>>
    ELSE IF ~IsWordChar(q[i]) THEN validatorMatches(q, i + 1)
    ELSE LET e == SpanIn(q, i, WordChars)
         IN  IF e <= Len(q) /\ q[e] = ":"
             THEN <<SubSeq(q, i, e)>> \o validatorMatches(q, e + 1)
             ELSE validatorMatches(q, e)

\* fieldMatches.map(match => match.replace(':', ''))
\*             .filter(field => !validFields.includes(field))
invalidFieldsOf(q) ==
    LET ms == validatorMatches(q, 1)
        names == [i \in DOMAIN ms |-> removeFirst(ms[i], <<":">>)]
        invalid(field) == \A k \in DOMAIN validFields : validFields[k] # field
    IN  SelectSeq(names, invalid)

\* `Invalid field(s): ${invalidFields.join(', ')}. Valid fields: ${validFields.join(', ')}`
invalidFieldsError(invalidFields) ==
    E_InvalidFields \o join(invalidFields, <<",", " ">>)
        \o E_ValidFields \o join(validFields, <<",", " ">>)

\* validateQuery with the field names checked before the quotes
validateQueryFieldsFirst(q) ==
    IF trim(q) = <<>>
    THEN [isValid |-> FALSE, error |-> <<E_QueryCannotBeEmpty>>]
    ELSE IF Len(invalidFieldsOf(q)) > 0
    THEN [isValid |-> FALSE,
          error |-> <<invalidFieldsError(invalidFieldsOf(q))>>]
    ELSE IF Cardinality(quoteMatches(q)) % 2 # 0
    THEN [isValid |-> FALSE, error |-> <<E_UnmatchedQuotes>>]
    ELSE [isValid |-> TRUE, error |-> <<>>]

\* SearchParser.validateQuery: { isValid, error? }, error absent is <<>>.
\* No step of the try block throws on a string, so the catch is not taken.
validateQuery(q) ==
    IF trim(q) = <<>>
    THEN [isValid |-> FALSE, error |-> <<E_QueryCannotBeEmpty>>]
    ELSE IF Cardinality(quoteMatches(q)) % 2 # 0
    THEN [isValid |-> FALSE, error |-> <<E_UnmatchedQuotes>>]
    ELSE IF Len(invalidFieldsOf(q)) > 0
    THEN [isValid |-> FALSE,
          error |-> <<invalidFieldsError(invalidFieldsOf(q))>>]
    ELSE [isValid |-> TRUE, error |-> <<>>]

(***************************************************************************)
(* SearchParser.highlight                                                  *)
(***************************************************************************)

\* the escaped characters with '.' left out
EscapedCharsNoDot ==
    {"*", "+", "?", "^", "$", "{", "}", "(", ")", "|", "[", "]", "\\"}

\* /[.*+?^${}()|[\]\\]/
EscapedChars ==
    {".", "*", "+", "?", "^", "$", "{", "}", "(", ")", "|", "[", "]", "\\"}

\* query.replace(/[.*+?^${}()|[\]\\]/g, '\\$&')
RECURSIVE escapeRegExp(_)
escapeRegExp(s) ==
    IF s = <<>> THEN <<>>
    ELSE (IF Head(s) \in EscapedChars THEN <<"\\", Head(s)>> ELSE <<Head(s)>>)
             \o escapeRegExp(Tail(s))

\* new RegExp(`(${source})`, 'gi'): the atoms of the group, for a source of
\* ordinary characters, escaped characters and '.'.  An escaped character is
\* that character; '.' not escaped is any character but a line terminator.
RECURSIVE regExpAtoms(_)
regExpAtoms(source) ==
    IF source = <<>> THEN <<>>
    ELSE IF Head(source) = "\\" /\ Len(source) >= 2
         THEN <<[any |-> FALSE, char |-> source[2]]>>
                  \o regExpAtoms(Tail(Tail(source)))
         ELSE <<[any |-> Head(source) = ".", char |-> Head(source)]>>
                  \o regExpAtoms(Tail(source))

\* one atom against one character, under the i flag
atomMatches(atom, c) ==
    IF atom.any THEN c \notin {"\n", "\r"}
    ELSE toLowerCaseChar(c) = toLowerCaseChar(atom.char)

\* the group matches s at position i
regExpMatchesAt(atoms, s, i) ==
    /\ i + Len(atoms) - 1 <= Len(s)
    /\ \A k \in DOMAIN atoms : atomMatches(atoms[k], s[i + k - 1])

\* '<mark class="bg-yellow-200 dark:bg-yellow-800">'
MarkOpen ==
    <<"<","m","a","r","k"," ","c","l","a","s","s","=","\"","b","g","-","y",
      "e","l","l","o","w","-","2","0","0"," ","d","a","r","k",":","b","g",
      "-","y","e","l","l","o","w","-","8","0","0","\"",">">>

\* '</mark>'
MarkClose ==
    <<"<","/","m","a","r","k",">">>

\* text.replace(regex, '<mark ...>$1</mark>') under the g flag, from
\* position i on: the matches are taken left to right without overlap
RECURSIVE replaceMatches(_, _, _)
replaceMatches(atoms, s, i) ==
    IF i > Len(s) THEN <<>>
    ELSE IF regExpMatchesAt(atoms, s, i)
         THEN MarkOpen \o SubSeq(s, i, i + Len(atoms) - 1) \o MarkClose
                  \o replaceMatches(atoms, s, i + Len(atoms))
         ELSE <<s[i]>> \o replaceMatches(atoms, s, i + 1)

\* SearchParser.highlight
highlight(s, q) ==
    IF q = <<>> THEN s
    ELSE replaceMatches(regExpAtoms(escapeRegExp(q)), s, 1)

(***************************************************************************)
(* SearchParser.getSuggestions                                             *)
(***************************************************************************)

\* suggestions.slice(0, 10)
MaxSuggestions == 10

\* String.prototype.split(/\s+/)
RECURSIVE splitSpaces(_)
splitSpaces(s) ==
    LET at == {i \in DOMAIN s : IsSpace(s[i])}
    IN  IF at = {} THEN <<s>>
        ELSE <<SubSeq(s, 1, Min(at) - 1)>>
                 \o splitSpaces(SubSeq(s, SpanIn(s, Min(at), SpaceChars), Len(s)))

\* query.split(/\s+/).pop()?.toLowerCase() || ''
lastWordOf(q) ==
    LET words == splitSpaces(q)
    IN  toLowerCase(words[Len(words)])

\* new Set(list) spread without dropping the repeated values
newSetKeepAll(list) == list

\* [...new Set(list)]: the distinct values in the order of insertion
RECURSIVE newSet(_)
newSet(list) ==
    IF list = <<>> THEN <<>>
    ELSE LET front == newSet(SubSeq(list, 1, Len(list) - 1))
         IN  IF \E k \in DOMAIN front : front[k] = list[Len(list)]
             THEN front
             ELSE Append(front, list[Len(list)])

\* items.flatMap(item => item.tags)
RECURSIVE flatTags(_)
flatTags(list) ==
    IF list = <<>> THEN <<>> ELSE Head(list).tags \o flatTags(Tail(list))

\* `title:"${title}"`
titleSuggestion(title) == W_title \o <<":", "\"">> \o title \o <<"\"">>

\* `tags:${tag}`
tagSuggestion(tag) == W_tags \o <<":">> \o tag

\* `type:${type}`
typeSuggestion(type) == W_type \o <<":">> \o type

\* the three forEach loops: the suggestions in the order they are pushed
pushedSuggestions(lastWord, list) ==
    LET uniqueTitles == newSet([i \in DOMAIN list |-> list[i].title])
        uniqueTags == newSet(flatTags(list))
        uniqueTypes == newSet([i \in DOMAIN list |-> list[i].contentType])
        hit(value) == includes(toLowerCase(value), lastWord)
        titles == SelectSeq(uniqueTitles, hit)
        tags == SelectSeq(uniqueTags, hit)
        types == SelectSeq(uniqueTypes, hit)
    IN  [i \in DOMAIN titles |-> titleSuggestion(titles[i])]
            \o [i \in DOMAIN tags |-> tagSuggestion(tags[i])]
            \o [i \in DOMAIN types |-> typeSuggestion(types[i])]

\* getSuggestions without the final slice
getSuggestionsUncut(q, list) ==
    IF Len(lastWordOf(q)) < 2 THEN <<>>
    ELSE pushedSuggestions(lastWordOf(q), list)

\* SearchParser.getSuggestions
getSuggestions(q, list) ==
    IF Len(lastWordOf(q)) < 2 THEN <<>>
    ELSE LET suggestions == pushedSuggestions(lastWordOf(q), list)
         IN  SubSeq(suggestions, 1, Min({MaxSuggestions, Len(suggestions)}))

(***************************************************************************)
(* The App component: its mock data, the filter/sort effect and the state  *)
(* its handlers set.                                                       *)
(***************************************************************************)
W_image == <<"i","m","a","g","e">>
W_video == <<"v","i","d","e","o">>
W_link == <<"l","i","n","k">>
W_javascript == <<"j","a","v","a","s","c","r","i","p","t">>

M1 ==
    [id |-> <<"1">>,
     title |->
        <<"R","e","a","c","t"," ","B","e","s","t"," ","P","r","a","c","t",
          "i","c","e","s">>,
     content |->
        <<<<"H","e","r","e"," ","a","r","e"," ","s","o","m","e"," ","i","m",
            "p","o","r","t","a","n","t"," ","R","e","a","c","t"," ","b","e",
            "s","t"," ","p","r","a","c","t","i","c","e","s"," ","t","o"," ",
            "f","o","l","l","o","w"," ","w","h","e","n"," ","b","u","i","l",
            "d","i","n","g"," ","a","p","p","l","i","c","a","t","i","o","n",
            "s",".",".",".">>>>,
     tags |->
        <<<<"r","e","a","c","t">>,
          <<"j","a","v","a","s","c","r","i","p","t">>,
          <<"f","r","o","n","t","e","n","d">>>>,
     contentType |-> W_note,
     createdAt |-> D_Jan15, updatedAt |-> D_Jan15]

M2 ==
    [id |-> <<"2">>,
     title |->
        <<"D","e","s","i","g","n"," ","S","y","s","t","e","m"," ","D","o",
          "c","u","m","e","n","t","a","t","i","o","n">>,
     content |->
        <<<<"C","o","m","p","l","e","t","e"," ","g","u","i","d","e"," ","t",
            "o"," ","o","u","r"," ","d","e","s","i","g","n"," ","s","y","s",
            "t","e","m"," ","i","n","c","l","u","d","i","n","g"," ","c","o",
            "l","o","r","s",","," ","t","y","p","o","g","r","a","p","h","y",
            ","," ","a","n","d"," ","c","o","m","p","o","n","e","n","t","s",
            ".">>>>,
     tags |->
        <<<<"d","e","s","i","g","n">>,
          <<"d","o","c","u","m","e","n","t","a","t","i","o","n">>,
          <<"u","i">>>>,
     contentType |-> W_document,
     createdAt |-> D_Jan14, updatedAt |-> D_Jan14]

M3 ==
    [id |-> <<"3">>,
     title |->
        <<"A","r","c","h","i","t","e","c","t","u","r","e"," ","D","i","a",
          "g","r","a","m">>,
     content |->
        <<<<"S","y","s","t","e","m"," ","a","r","c","h","i","t","e","c","t",
            "u","r","e"," ","o","v","e","r","v","i","e","w"," ","s","h","o",
            "w","i","n","g"," ","m","i","c","r","o","s","e","r","v","i","c",
            "e","s"," ","a","n","d"," ","d","a","t","a"," ","f","l","o","w",
            ".">>>>,
     tags |->
        <<<<"a","r","c","h","i","t","e","c","t","u","r","e">>,
          <<"s","y","s","t","e","m">>,
          <<"d","i","a","g","r","a","m">>>>,
     contentType |-> W_image,
     createdAt |-> D_Jan13, updatedAt |-> D_Jan13]

M4 ==
    [id |-> <<"4">>,
     title |->
        <<"T","e","a","m"," ","M","e","e","t","i","n","g"," ","R","e","c",
          "o","r","d","i","n","g">>,
     content |->
        <<<<"W","e","e","k","l","y"," ","t","e","a","m"," ","s","y","n","c",
            " ","d","i","s","c","u","s","s","i","n","g"," ","p","r","o","j",
            "e","c","t"," ","p","r","o","g","r","e","s","s"," ","a","n","d",
            " ","n","e","x","t"," ","s","t","e","p","s",".">>>>,
     tags |->
        <<<<"m","e","e","t","i","n","g">>,
          <<"t","e","a","m">>,
          <<"s","y","n","c">>>>,
     contentType |-> W_video,
     createdAt |-> D_Jan12, updatedAt |-> D_Jan12]

M5 ==
    [id |-> <<"5">>,
     title |->
        <<"U","s","e","f","u","l"," ","D","e","v","e","l","o","p","m","e",
          "n","t"," ","R","e","s","o","u","r","c","e","s">>,
     content |->
        <<<<"h","t","t","p","s",":","/","/","d","e","v","e","l","o","p","e",
            "r",".","m","o","z","i","l","l","a",".","o","r","g","/","e","n",
            "-","U","S","/","d","o","c","s","/","W","e","b","/","J","a","v",
            "a","S","c","r","i","p","t">>>>,
     tags |->
        <<<<"r","e","s","o","u","r","c","e","s">>,
          <<"j","a","v","a","s","c","r","i","p","t">>,
          <<"l","e","a","r","n","i","n","g">>>>,
     contentType |-> W_link,
     createdAt |-> D_Jan11, updatedAt |-> D_Jan11]

\* const mockItems: ContentItem[]
mockItems == <<M1, M2, M3, M4, M5>>

\* the item handleAddContent builds from the dialog's data on the n-th add:
\* id and timestamps come from the clock
NewItem(n) ==
    [id |-> <<"1","7","0","6","7","7","4","4","0","0","0","0">>
                \o (IF n = 1 THEN <<"1">> ELSE <<"2">>),
     title |-> <<"N","e","w"," ","n","o","t","e"," ">>
                \o (IF n = 1 THEN <<"1">> ELSE <<"2">>),
     content |-> << <<"r","e","a","c","t">> >>,
     tags |-> << <<"n","e","w">> >>,
     contentType |-> W_note,
     createdAt |-> IF n = 1 THEN D_Feb01 ELSE D_Feb02,
     updatedAt |-> IF n = 1 THEN D_Feb01 ELSE D_Feb02]

\* the characters of the model in the order of their code units
CodeOrder ==
    <<" ", "!", "\"", "'", ",", "-", ".", "/",
      "0","1","2","3","4","5","6","7","8","9", ":", "<", "=", ">",
      "A","B","C","D","E","F","G","H","I","J","K","L","M",
      "N","O","P","Q","R","S","T","U","V","W","X","Y","Z", "_",
      "a","b","c","d","e","f","g","h","i","j","k","l","m",
      "n","o","p","q","r","s","t","u","v","w","x","y","z">>

charCode(c) == CHOOSE i \in DOMAIN CodeOrder : CodeOrder[i] = c

\* a < b on strings
RECURSIVE stringLess(_, _)
stringLess(a, b) ==
    IF b = <<>> THEN FALSE
    ELSE IF a = <<>> THEN TRUE
    ELSE IF Head(a) = Head(b) THEN stringLess(Tail(a), Tail(b))
    ELSE charCode(Head(a)) < charCode(Head(b))

\* aValue of the comparator for an item: the time value of a date field,
\* the lower-cased text of another
sortValue(item, field) ==
    CASE field = "createdAt" -> DateValue(item.createdAt)
      [] field = "updatedAt" -> DateValue(item.updatedAt)
      [] field = "title" -> toLowerCase(item.title)
      [] field = "contentType" -> toLowerCase(item.contentType)

\* aValue < bValue
valueLess(aValue, bValue, field) ==
    IF field \in {"createdAt", "updatedAt"}
    THEN dateLess(aValue, bValue)
    ELSE stringLess(aValue, bValue)

\* the comparator of filtered.sort, on the values of two items
compareValues(aValue, bValue, sortConfig) ==
    IF sortConfig.direction = "asc"
    THEN IF valueLess(bValue, aValue, sortConfig.field) THEN 1 ELSE -1
    ELSE IF valueLess(aValue, bValue, sortConfig.field) THEN 1 ELSE -1

\* the place of every item of a list with the given values after a stable
\* sort: an item moves behind an earlier one only when the comparator puts
\* the earlier one after it
sortedPositions(values, sortConfig) ==
    LET n == Len(values)
        before(j, i) ==
            IF j < i
            THEN compareValues(values[j], values[i], sortConfig) <= 0
            ELSE compareValues(values[i], values[j], sortConfig) > 0
    IN  [i \in 1..n |-> 1 + Cardinality({j \in 1..n : j # i /\ before(j, i)})]

\* Array.prototype.sort with the comparator.  The comparator never answers
\* 0, so the order it gives to items with equal values is left to the
\* engine; the items of the model differ in every sorted value.
sortItems(list, sortConfig) ==
    LET n == Len(list)
    IN  CHOOSE sorted \in
            {[p \in 1..n |-> list[CHOOSE i \in 1..n : position[i] = p]] :
                position \in
                    {sortedPositions(values, sortConfig) :
                        values \in {[i \in 1..n |->
                                        sortValue(list[i], sortConfig.field)]}}} :
            TRUE

\* useState<SearchFilters>({})
NoFilters == [contentType |-> <<>>, tags |-> <<>>, dateRange |-> <<>>]

\* useState({ field: 'updatedAt', direction: 'desc' })
DefaultSort == [field |-> "updatedAt", direction |-> "desc"]

\* the advanced filters of the effect, applied to the searched list
applyFilters(list, filters) ==
    LET byType(item) ==
            \E k \in DOMAIN filters.contentType :
                filters.contentType[k] = item.contentType
        byTags(item) ==
            \E f \in DOMAIN filters.tags : \E t \in DOMAIN item.tags :
                includes(toLowerCase(item.tags[t]), toLowerCase(filters.tags[f]))
        hasStart == filters.dateRange # <<>> /\ filters.dateRange[1].start # <<>>
        hasEnd == filters.dateRange # <<>> /\ filters.dateRange[1].end # <<>>
        fromStart(item) ==
            dateGreaterEq(DateValue(item.createdAt),
                          DateValue(filters.dateRange[1].start))
        toEnd(item) ==
            dateLessEq(DateValue(item.createdAt),
                       DateValue(filters.dateRange[1].end))
        typed == IF Len(filters.contentType) > 0
                 THEN SelectSeq(list, byType) ELSE list
        tagged == IF Len(filters.tags) > 0
                  THEN SelectSeq(typed, byTags) ELSE typed
        started == IF hasStart THEN SelectSeq(tagged, fromStart) ELSE tagged
    IN  IF hasEnd THEN SelectSeq(started, toEnd) ELSE started

\* the effect on [searchQuery, contentItems, filters, sortConfig]: the list
\* it hands to setFilteredItems
filterSortEffect(contentItems, searchQuery, filters, sortConfig) ==
    LET searched == IF trim(searchQuery) # <<>>
                    THEN filter(contentItems, parse(searchQuery))
                    ELSE contentItems
    IN  \* every step works on the finished list of the step before it
        CHOOSE sorted \in
            {sortItems(filtered, sortConfig) :
                filtered \in {applyFilters(list, filters) :
                                list \in {searched}}} :
            TRUE

\* handleSearch: the list it hands to setFilteredItems
searchHandlerList(contentItems, q) ==
    IF trim(q) # <<>> THEN filter(contentItems, parse(q)) ELSE contentItems

\* handleFilterChange: the list it hands to setFilteredItems; contentType is
\* <<>> for undefined
filterHandlerList(contentItems, contentType) ==
    LET ofType(item) == item.contentType = contentType[1]
    IN  IF contentType # <<>> /\ contentType[1] # <<>>
        THEN SelectSeq(contentItems, ofType) ELSE contentItems

\* prev.filter(i => i.id !== item.id)
withoutItem(contentItems, item) ==
    LET other(i) == i.id # item.id
    IN  SelectSeq(contentItems, other)

(***************************************************************************)
(* Inputs.  Queries are the documented example queries, every string over  *)
(* a small alphabet up to MaxLen characters, and up to MaxClauses          *)
(* space-separated fragments, each a field prefix followed by a value.     *)
(***************************************************************************)
MaxLen == 4

MaxClauses == 2

Alphabet == {"a", ":", " ", "\"", ">", ","}

CharQueries == UNION {[1..n -> Alphabet] : n \in 0..MaxLen}

FieldPieces ==
    {<<>>, <<"x",":">>, W_tags \o <<":">>, W_created \o <<":">>,
     W_updated \o <<":">>}

ValuePieces ==
    {<<"a">>, <<"a",",","b">>, <<",","c">>, <<">","a">>, <<">","=">>,
     <<"\"","a","\"">>, <<"A","N","D">>}

Fragments == {f \o v : f \in FieldPieces, v \in ValuePieces}

RECURSIVE joinWithSpace(_)
joinWithSpace(ws) ==
    IF ws = <<>> THEN <<>>
    ELSE IF Len(ws) = 1 THEN ws[1]
    ELSE ws[1] \o <<" ">> \o joinWithSpace(Tail(ws))

ClauseQueries ==
    {joinWithSpace(ws) : ws \in UNION {[1..n -> Fragments] : n \in 1..MaxClauses}}

\* 'type:note AND tags:react'
Q_TypeNoteAndTagsReact ==
    W_type \o <<":">> \o W_note \o <<" ","A","N","D"," ">>
        \o W_tags \o <<":">> \o W_react

\* 'type:document AND tags:react'
Q_TypeDocumentAndTagsReact ==
    W_type \o <<":">> \o W_document \o <<" ","A","N","D"," ">>
        \o W_tags \o <<":">> \o W_react

\* 'design'
Q_Design == W_design

\* 'tags:a,b,c'
Q_TagsABC == W_tags \o <<":","a",",","b",",","c">>

\* 'created:>2024-01-01'
Q_CreatedAfterJan01 == W_created \o <<":",">">> \o D_Jan01

\* 'created:a>b'
Q_CreatedOperatorInside == W_created \o <<":","a",">","b">>

\* '  a  AND b '
Q_FreeTextWithAnd == <<" "," ","a"," "," ","A","N","D"," ","b"," ">>

\* 'tags:a created:>a tags:b updated:<=b'
Q_RepeatedClauses ==
    W_tags \o <<":","a"," ">> \o W_created \o <<":",">","a"," ">>
        \o W_tags \o <<":","b"," ">> \o W_updated \o <<":","<","=","b">>

\* 'title:"unterminated'
Q_TitleUnterminated ==
    <<"t","i","t","l","e",":","\"","u","n","t","e","r","m","i","n","a","t",
      "e","d">>

\* 'bogus:x'
Q_BogusX ==
    <<"b","o","g","u","s",":","x">>

\* 'bogus:x bogus:y'
Q_BogusTwice ==
    <<"b","o","g","u","s",":","x"," ","b","o","g","u","s",":","y">>

\* 'title:w1 w2 type:w3'
Q_TwoWordValue ==
    <<"t","i","t","l","e",":","w","1"," ","w","2"," ","t","y","p","e",":",
      "w","3">>

\* 'type:note extra words'
Q_TrailingText ==
    <<"t","y","p","e",":","n","o","t","e"," ","e","x","t","r","a"," ","w",
      "o","r","d","s">>

\* 'type:document OR type:note'
Q_TypeDocumentOrNote ==
    <<"t","y","p","e",":","d","o","c","u","m","e","n","t"," ","O","R"," ",
      "t","y","p","e",":","n","o","t","e">>

\* 'tags:design AND NOT type:video'
Q_DesignNotVideo ==
    <<"t","a","g","s",":","d","e","s","i","g","n"," ","A","N","D"," ","N",
      "O","T"," ","t","y","p","e",":","v","i","d","e","o">>

\* 'created:!=2024-01-15'
Q_CreatedNotEqual ==
    <<"c","r","e","a","t","e","d",":","!","=","2","0","2","4","-","0","1",
      "-","1","5">>

\* 'updated:>>a'
Q_UpdatedDoubleGreater ==
    <<"u","p","d","a","t","e","d",":",">",">","a">>

\* 'created:==a'
Q_CreatedDoubleEqual ==
    <<"c","r","e","a","t","e","d",":","=","=","a">>

\* 'title:a:b'
Q_TitleColonValue ==
    <<"t","i","t","l","e",":","a",":","b">>

\* 'created:>2024-01-15T10:30:00Z'
Q_CreatedAfterTimestamp ==
    <<"c","r","e","a","t","e","d",":",">","2","0","2","4","-","0","1","-",
      "1","5","T","1","0",":","3","0",":","0","0","Z">>

ExampleQueries ==
    {Q_TypeNoteAndTagsReact, Q_TypeDocumentAndTagsReact, Q_Design, Q_TagsABC,
     Q_CreatedAfterJan01, Q_CreatedOperatorInside, Q_FreeTextWithAnd,
     Q_RepeatedClauses, Q_TitleUnterminated, Q_BogusX, Q_BogusTwice,
     Q_TwoWordValue, Q_TrailingText, Q_TypeDocumentOrNote, Q_DesignNotVideo,
     Q_CreatedNotEqual, Q_UpdatedDoubleGreater, Q_CreatedDoubleEqual,
     Q_TitleColonValue, Q_CreatedAfterTimestamp}

Queries == ExampleQueries \cup CharQueries \cup ClauseQueries

(***************************************************************************)
(* Spec: a query is parsed, then applied to the example records.           *)
(***************************************************************************)
Init ==
    /\ query \in Queries
    /\ parsed = emptyResult
    /\ items = SpecRecords
    /\ result = <<>>
    /\ base = <<>>
    /\ target = <<>>
    /\ output = <<>>
    /\ timeZone = 0
    /\ app = NoApp
    /\ op = "init"

\* const parsedQuery = SearchParser.parse(query)
ParseQuery ==
    /\ op = "init"
    /\ parsed' = parse(query)
    /\ op' = "parsed"
    /\ UNCHANGED <<query, items, result, base, target, output, timeZone, app>>

\* const filtered = SearchParser.filter(contentItems, parsedQuery)
FilterItems ==
    /\ op = "parsed"
    /\ result' = filter(items, parsed)
    /\ op' = "filtered"
    /\ UNCHANGED <<query, parsed, items, base, target, output, timeZone, app>>

\* SearchParser.validateQuery(query)
ValidateQuery ==
    /\ op = "init"
    /\ output' = validateQuery(query)
    /\ op' = "validated"
    /\ UNCHANGED <<query, parsed, items, result, base, target, timeZone, app>>

Next == ParseQuery \/ FilterItems \/ ValidateQuery

Spec == Init /\ [][Next]_vars

(***************************************************************************)
(* Properties of Spec                                                      *)
(***************************************************************************)
Range(f) == {f[i] : i \in DOMAIN f}

Max(S) == CHOOSE x \in S : \A y \in S : x >= y

Parsed == op \in {"parsed", "filtered"}

\* the clauses the extractor finds in the query, left to right
Clauses == fieldMatches(normalize(query))

\* C1: for the records [R1, R2] of the end-to-end example,
\* filter(records, parse('type:note AND tags:react')) returns exactly [R1].
C1_TypeAndTagsReturnsFirst ==
    (op = "filtered" /\ query = Q_TypeNoteAndTagsReact /\ items = SpecRecords)
        => result = <<R1>>

\* C2: parse('type:document AND tags:react') records "AND" in the connectives
\* and has both type and tags in fields; in general a connective keyword
\* written between two field clauses is recorded in the connectives.
C2_ConnectiveBetweenClausesRecorded ==
    Parsed =>
        /\ query = Q_TypeDocumentAndTagsReact =>
              /\ <<"A","N","D">> \in Range(parsed.operators)
              /\ {W_type, W_tags} \subseteq DOMAIN parsed.fields
        /\ \A k \in DOMAIN Keywords :
           \A c1, c2 \in {f \in Fragments : \E i \in DOMAIN f : f[i] = ":"} :
              query = c1 \o <<" ">> \o Keywords[k] \o <<" ">> \o c2
                  => Keywords[k] \in Range(parsed.operators)

\* C3: for every input string, the empty and the whitespace-only ones too,
\* fullText is absent or a non-empty string, never the empty string (fields,
\* dateFilters and connectives are containers in every state of the model).
C3_FullTextNeverEmptyString ==
    Parsed =>
        /\ parsed.fullText # << <<>> >>
        /\ DOMAIN parsed.operators = 1..Len(parsed.operators)
        /\ DOMAIN parsed.dateFilters = 1..Len(parsed.dateFilters)

\* the words of q: its maximal runs of non-space characters, in order
WordStarts(q) ==
    {i \in 1..Len(q) : ~IsSpace(q[i]) /\ (i = 1 \/ IsSpace(q[i - 1]))}

RECURSIVE WordsFrom(_, _)
WordsFrom(q, i) ==
    IF {j \in WordStarts(q) : j >= i} = {} THEN <<>>
    ELSE LET b == Min({j \in WordStarts(q) : j >= i})
             e == SpanNotIn(q, b, SpaceChars)
         IN  <<SubSeq(q, b, e - 1)>> \o WordsFrom(q, e)

\* q trimmed, with its whitespace runs collapsed to single spaces
SquashedText(q) == joinWithSpace(WordsFrom(q, 1))

\* C4: for every query in which no field:value clause is found (every query
\* without a ':' among them), parse gives empty fields, empty dateFilters,
\* empty connectives, even when the query contains AND/OR/NOT, and fullText
\* equal to the query trimmed with whitespace runs collapsed.
C4_NoClauseIsFreeText ==
    (Parsed /\ (Clauses = <<>> \/ ":" \notin Range(query))) =>
        /\ parsed.fields = EmptyFields
        /\ parsed.dateFilters = <<>>
        /\ parsed.operators = <<>>
        /\ parsed.fullText = <<SquashedText(query)>>

\* C4's case: a parsed query without ':' that contains AND and whitespace runs
C4_Witness ==
    /\ Parsed
    /\ ":" \notin Range(query)
    /\ includes(query, <<"A","N","D">>)
    /\ includes(query, <<" "," ">>)
    /\ parsed.fullText = <<SquashedText(query)>>

\* C5: for the same two records, filter(records, parse('design')) returns
\* exactly [R2]: a case-insensitive full-text match on title, content, tags.
C5_DesignReturnsSecond ==
    (op = "filtered" /\ query = Q_Design /\ items = SpecRecords)
        => result = <<R2>>

\* C5's case: 'design' parsed and applied to the two records
C5_Witness ==
    /\ op = "filtered"
    /\ query = Q_Design
    /\ items = SpecRecords
    /\ parsed.fullText = <<W_design>>
    /\ result = <<R2>>

DateFields == {W_created, W_updated}

\* a created/updated clause in which an operator is found
IsDatedClause(m) == matchField(m) \in DateFields /\ dateMatch(matchValue(m)) # <<>>

\* the comma-separated pieces of v, each trimmed, in order
TrimmedPieces(v) ==
    LET commas == {i \in 1..Len(v) : v[i] = ","}
        cuts == {0} \cup commas \cup {Len(v) + 1}
        from(k) == CHOOSE c \in cuts : Cardinality({d \in cuts : d < c}) = k - 1
        to(k) == CHOOSE c \in cuts : Cardinality({d \in cuts : d < c}) = k
    IN  [k \in 1..(Cardinality(commas) + 1) |->
            trim(SubSeq(v, from(k) + 1, to(k) - 1))]

\* C6: clauses are processed left to right: a non-date field name that occurs
\* more than once holds the value of its last occurrence only; every
\* created/updated clause with an operator is appended to dateFilters in
\* source order, so n such clauses give n entries.
C6_LastWriteWinsDatesAppend ==
    Parsed =>
        LET names == {matchField(Clauses[i]) : i \in DOMAIN Clauses} \ DateFields
            last(f) == Clauses[Max({i \in DOMAIN Clauses : matchField(Clauses[i]) = f})]
            dated == SelectSeq(Clauses, IsDatedClause)
        IN  /\ DOMAIN parsed.fields = names
            /\ \A f \in names :
                  IF parsed.fields[f].kind = "string"
                  THEN parsed.fields[f].str = matchValue(last(f))
                  ELSE /\ f = W_tags
                       /\ includes(matchValue(last(f)), <<",">>)
                       /\ parsed.fields[f].arr = TrimmedPieces(matchValue(last(f)))
            /\ Len(parsed.dateFilters) = Len(dated)
            /\ \A i \in DOMAIN dated :
                  /\ parsed.dateFilters[i].field = matchField(dated[i])
                  /\ parsed.dateFilters[i].operator
                         = dateMatch(matchValue(dated[i]))[1].operator
                  /\ parsed.dateFilters[i].value
                         = trim(dateMatch(matchValue(dated[i]))[1].value)

\* C6's case: a field written twice with different values, and two date
\* clauses with operators
C6_Witness ==
    /\ Parsed
    /\ \E i, j \in DOMAIN Clauses :
          /\ i < j
          /\ matchField(Clauses[i]) = matchField(Clauses[j])
          /\ matchField(Clauses[i]) \notin DateFields
          /\ matchValue(Clauses[i]) # matchValue(Clauses[j])
          /\ parsed.fields[matchField(Clauses[j])].str = matchValue(Clauses[j])
    /\ Len(parsed.dateFilters) = 2
    /\ parsed.dateFilters[1].field = W_created
    /\ parsed.dateFilters[2].field = W_updated

\* C7: for a tags clause, a value with a comma makes fields.tags the ordered
\* sequence of the comma-separated pieces, each trimmed
\* (parse('tags:a,b,c').fields.tags = ['a','b','c']); a value without a comma
\* makes fields.tags the single string value.
C7_TagsSplitOnCommas ==
    Parsed =>
        /\ query = Q_TagsABC =>
              parsed.fields[W_tags] = Arr(<< <<"a">>, <<"b">>, <<"c">> >>)
        /\ LET at == {i \in DOMAIN Clauses : matchField(Clauses[i]) = W_tags}
           IN  at # {} =>
                  LET v == matchValue(Clauses[Max(at)])
                  IN  IF "," \in Range(v)
                      THEN parsed.fields[W_tags] = Arr(TrimmedPieces(v))
                      ELSE parsed.fields[W_tags] = Str(v)

\* C7's case: 'tags:a,b,c' parsed
C7_Witness ==
    /\ Parsed
    /\ query = Q_TagsABC
    /\ parsed.fields[W_tags].kind = "array"
    /\ Len(parsed.fields[W_tags].arr) = 3

\* the query is the single clause f:v, v without spaces or quotes and with
\* something other than comparison characters in it
IsSingleClause(q, f) ==
    /\ Len(q) > Len(f) + 1
    /\ SubSeq(q, 1, Len(f) + 1) = f \o <<":">>
    /\ \A i \in (Len(f) + 2)..Len(q) : ~IsSpace(q[i]) /\ ~IsQuote(q[i])
    /\ \E i \in (Len(f) + 2)..Len(q) : ~IsCmp(q[i])

\* C8: for a created/updated clause the recorded operator is the leading run
\* of comparison characters at the start of the value and the recorded value
\* is the trimmed remainder; a value that does not start with a comparison
\* operator drops the clause; created/updated is never stored in fields.
C8_DateOperatorIsLeadingRun ==
    Parsed =>
        \A f \in DateFields :
            IsSingleClause(query, f) =>
                LET v == SubSeq(query, Len(f) + 2, Len(query))
                    r == SpanIn(v, 1, CmpChars)
                IN  /\ f \notin DOMAIN parsed.fields
                    /\ parsed.dateFilters =
                          IF r > 1
                          THEN <<[field |-> f,
                                  operator |-> SubSeq(v, 1, r - 1),
                                  value |-> trim(SubSeq(v, r, Len(v)))]>>
                          ELSE <<>>

(***************************************************************************)
(* SpecFilter: the evaluator on its own.  A ParsedQuery is built one       *)
(* predicate at a time over a bounded collection of records; every step    *)
(* keeps the result for the query before the step (base) and computes the  *)
(* result after it.                                                        *)
(***************************************************************************)
MaxItems == 3

MaxPredicates == 2

\* a record with content, an upper-case tag and date-only timestamps
R3 ==
    [id |-> 3, title |-> <<"N","o","t","e","s">>,
     content |-> << <<"R","e","a","c","t"," ","d","e","s","i","g","n">> >>,
     tags |-> << <<"R","E","A","D">> >>, contentType |-> W_note,
     createdAt |-> D_Jan01, updatedAt |-> D_Jan15Day]

ItemPool == {R1, R2, R3}

ItemLists == UNION {[1..n -> ItemPool] : n \in 0..MaxItems}

FieldChoices ==
    {<<W_title, Str(<<"E","S">>)>>,
     <<W_content, Str(<<"r","e","a","c","t">>)>>,
     <<W_type, Str(W_note)>>,
     <<W_tags, Str(<<"r","e","a">>)>>,
     <<W_tags, Arr(<< <<"z">>, <<"D","E","S">> >>)>>,
     <<<<"x">>, Str(<<"z">>)>>}

DateFilter(f, o, v) == [field |-> f, operator |-> o, value |-> v]

DateChoices ==
    {DateFilter(W_created, <<">">>, D_Jan15Day),
     DateFilter(W_created, <<"=">>, D_Jan15Day),
     DateFilter(W_created, <<">","=">>, D_Jan14),
     DateFilter(W_created, <<"!","=">>, D_Jan15Day),
     DateFilter(W_updated, <<"<","=">>, D_Jan15Day),
     DateFilter(W_updated, <<"=">>, <<"a">>)}

TextChoices == {<<>>, <<"D","e","s","i","g","n">>, <<"r","e","a","c","t">>}

predicateCount(pq) ==
    Cardinality(DOMAIN pq.fields) + Len(pq.dateFilters) + Len(pq.fullText)

InitFilter ==
    /\ query = <<>>
    /\ parsed = emptyResult
    /\ items \in ItemLists
    /\ result = <<>>
    /\ base = <<>>
    /\ target = <<>>
    /\ output = <<>>
    /\ timeZone = 0
    /\ app = NoApp
    /\ op = "init"

\* filter(items, q) and filter(items, q with one more entry in fields)
AddField ==
    \E c \in FieldChoices :
        /\ predicateCount(parsed) < MaxPredicates
        /\ c[1] \notin DOMAIN parsed.fields
        /\ parsed' = [parsed EXCEPT !.fields = setField(@, c[1], c[2])]
        /\ base' = filter(items, parsed)
        /\ result' = filter(items, parsed')
        /\ op' = "extended"
        /\ UNCHANGED <<query, items, target, output, timeZone, app>>

\* filter(items, q) and filter(items, q with one more date filter)
AddDateFilter ==
    \E d \in DateChoices :
        /\ predicateCount(parsed) < MaxPredicates
        /\ parsed' = [parsed EXCEPT !.dateFilters = Append(@, d)]
        /\ base' = filter(items, parsed)
        /\ result' = filter(items, parsed')
        /\ op' = "extended"
        /\ UNCHANGED <<query, items, target, output, timeZone, app>>

\* filter(items, q) and filter(items, q with a fullText)
AddFullText ==
    \E t \in TextChoices :
        /\ predicateCount(parsed) < MaxPredicates
        /\ parsed.fullText = <<>>
        /\ parsed' = [parsed EXCEPT !.fullText = <<t>>]
        /\ base' = filter(items, parsed)
        /\ result' = filter(items, parsed')
        /\ op' = "extended"
        /\ UNCHANGED <<query, items, target, output, timeZone, app>>

\* filter(items, q) and filter(filter(items, q), q)
FilterAgain ==
    /\ op # "refiltered"
    /\ base' = filter(items, parsed)
    /\ result' = filter(filter(items, parsed), parsed)
    /\ op' = "refiltered"
    /\ UNCHANGED <<query, parsed, items, target, output, timeZone, app>>

NextFilter == AddField \/ AddDateFilter \/ AddFullText \/ FilterAgain

SpecFilter == InitFilter /\ [][NextFilter]_vars

\* C9: evaluator idempotence: for every record sequence and every ParsedQuery
\* q, filter(filter(records, q), q) equals filter(records, q).
C9_FilterIdempotent ==
    op = "refiltered" => result = base

\* C9's case: a query with predicates that keeps two records and drops one
C9_Witness ==
    /\ op = "refiltered"
    /\ predicateCount(parsed) >= 1
    /\ Len(result) >= 2
    /\ Len(result) < Len(items)
    /\ result[1] # result[2]
    /\ result = base

\* C10: evaluator monotonicity: adding one more entry to q.fields, one more
\* date filter or a fullText never adds records: the result for the extended
\* query is a subset of the result for q.
C10_FilterMonotone ==
    op = "extended" => Range(result) \subseteq Range(base)

\* C10's case: a predicate added to a non-empty query drops a record and
\* keeps another
C10_Witness ==
    /\ op = "extended"
    /\ predicateCount(parsed) >= 2
    /\ Len(result) >= 1
    /\ Len(result) < Len(base)
    /\ Range(result) \subseteq Range(base)

(***************************************************************************)
(* SpecRelevance: the evaluator under changes of the parts of a ParsedQuery *)
(* that no case of its switch reads: the connectives and the entries of    *)
(* fields under other names.  Every step keeps the result before the       *)
(* change (base) and computes the result after it.                         *)
(***************************************************************************)

\* the cases of the switch over Object.entries(parsedQuery.fields)
FilterFields == {W_title, W_content, W_type, W_tags}

FieldSeeds ==
    {EmptyFields} \cup {setField(EmptyFields, c[1], c[2]) : c \in FieldChoices}

RelevanceQueries ==
    {[fields |-> f, operators |-> <<>>, dateFilters |-> d, fullText |-> t] :
        f \in FieldSeeds,
        d \in {<<>>} \cup {<<x>> : x \in DateChoices},
        t \in {<<>>} \cup {<<x>> : x \in TextChoices}}

RelevanceLists == {<<R1, R2, R3>>, <<R3, R3, R1>>}

OperatorChoices ==
    {<<>>, << <<"A","N","D">> >>, << <<"O","R">>, <<"N","O","T">> >>}

UnknownChoices ==
    {<< <<"x">>, Str(<<"z">>) >>,
     << <<"T","i","t","l","e">>, Str(<<"z","z","z">>) >>,
     << W_created, Arr(<< <<"q">> >>) >>}

InitRelevance ==
    /\ query = <<>>
    /\ parsed \in RelevanceQueries
    /\ items \in RelevanceLists
    /\ result = <<>>
    /\ base = <<>>
    /\ target = <<>>
    /\ output = <<>>
    /\ timeZone = 0
    /\ app = NoApp
    /\ op = "init"

\* filter(items, q) and filter(items, q with other connectives)
SetOperators ==
    \E ops \in OperatorChoices :
        /\ ops # parsed.operators
        /\ parsed' = [parsed EXCEPT !.operators = ops]
        /\ base' = filter(items, parsed)
        /\ result' = filter(items, parsed')
        /\ op' = "reshaped"
        /\ UNCHANGED <<query, items, target, output, timeZone, app>>

\* filter(items, q) and filter(items, q with an entry the switch has no
\* case for)
AddUnknownField ==
    \E c \in UnknownChoices :
        /\ c[1] \notin DOMAIN parsed.fields
        /\ parsed' = [parsed EXCEPT !.fields = setField(@, c[1], c[2])]
        /\ base' = filter(items, parsed)
        /\ result' = filter(items, parsed')
        /\ op' = "reshaped"
        /\ UNCHANGED <<query, items, target, output, timeZone, app>>

\* filter(items, q) and filter(items, q without such an entry)
RemoveUnknownField ==
    \E k \in DOMAIN parsed.fields \ FilterFields :
        /\ parsed' = [parsed EXCEPT
                        !.fields = [x \in DOMAIN @ \ {k} |-> @[x]]]
        /\ base' = filter(items, parsed)
        /\ result' = filter(items, parsed')
        /\ op' = "reshaped"
        /\ UNCHANGED <<query, items, target, output, timeZone, app>>

NextRelevance == SetOperators \/ AddUnknownField \/ RemoveUnknownField

SpecRelevance == InitRelevance /\ [][NextRelevance]_vars

\* the part of a ParsedQuery the claim says the result depends on
relevantPart(pq) ==
    [fields |-> [k \in DOMAIN pq.fields \cap FilterFields |-> pq.fields[k]],
     operators |-> <<>>,
     dateFilters |-> pq.dateFilters,
     fullText |-> pq.fullText]

\* C11: the result of filter depends only on the title, content, type and
\* tags entries of fields, on dateFilters and on fullText: it equals the
\* result for the query cut down to those parts, a query whose such parts are
\* empty returns every record, and a change of the connectives or of an
\* entry under another name leaves the result as it was.
C11_OnlyPredicatesMatter ==
    op = "reshaped" =>
        /\ result = base
        /\ result = filter(items, relevantPart(parsed))
        /\ relevantPart(parsed) = emptyResult => result = items

\* C11's case: connectives and an unrecognized entry on a query that keeps
\* one record and drops another
C11_Witness ==
    /\ op = "reshaped"
    /\ parsed.operators # <<>>
    /\ DOMAIN parsed.fields \ FilterFields # {}
    /\ DOMAIN parsed.fields \cap FilterFields # {}
    /\ Len(result) >= 1
    /\ Len(result) < Len(items)
    /\ result = base

(***************************************************************************)
(* Properties of Spec: the validator                                       *)
(***************************************************************************)

\* the names the validator may meet: title, content, tags, type, created,
\* updated
AllowedNames == {validFields[k] : k \in DOMAIN validFields}

\* the start positions of the words of q that ':' follows immediately, a
\* word being a maximal run of word characters
ColonWordStarts(q) ==
    {i \in DOMAIN q :
        /\ IsWordChar(q[i])
        /\ i = 1 \/ ~IsWordChar(q[i - 1])
        /\ SpanIn(q, i, WordChars) <= Len(q)
        /\ q[SpanIn(q, i, WordChars)] = ":"}

ColonWordAt(q, i) == SubSeq(q, i, SpanIn(q, i, WordChars) - 1)

\* the words of q followed by ':' that are not allowed names
OffendingNames(q) ==
    {ColonWordAt(q, i) : i \in ColonWordStarts(q)} \ AllowedNames

IsPrefix(p, s) == Len(p) <= Len(s) /\ SubSeq(s, 1, Len(p)) = p

\* C12: validate(q) fails with the empty-query reason when q is empty after
\* trimming, otherwise with the unbalanced-quotes reason when q holds an odd
\* number of '"', otherwise with the unknown-field reason when a word
\* followed by ':' is not an allowed name, and succeeds otherwise;
\* 'title:"unterminated' fails for its quotes and 'bogus:x' for its field
\* bogus.
C12_ValidateReasonsInOrder ==
    op = "validated" =>
        /\ IF \A i \in DOMAIN query : IsSpace(query[i])
           THEN output = [isValid |-> FALSE, error |-> <<E_QueryCannotBeEmpty>>]
           ELSE IF Cardinality({i \in DOMAIN query : query[i] = "\""}) % 2 = 1
           THEN output = [isValid |-> FALSE, error |-> <<E_UnmatchedQuotes>>]
           ELSE IF OffendingNames(query) # {}
           THEN /\ output.isValid = FALSE
                /\ Len(output.error) = 1
                /\ IsPrefix(E_InvalidFields, output.error[1])
           ELSE output = [isValid |-> TRUE, error |-> <<>>]
        /\ query = Q_TitleUnterminated => output.error = <<E_UnmatchedQuotes>>
        /\ query = Q_BogusX =>
              /\ output.isValid = FALSE
              /\ IsPrefix(E_InvalidFields \o <<"b","o","g","u","s">>,
                          output.error[1])

\* C12's case: a query with an odd number of quotes and an unknown field is
\* turned down for its quotes
C12_Witness ==
    /\ op = "validated"
    /\ OffendingNames(query) # {}
    /\ Cardinality({i \in DOMAIN query : query[i] = "\""}) % 2 = 1
    /\ output.error = <<E_UnmatchedQuotes>>

\* list without the repetitions, every element at its first occurrence
RECURSIVE dedupe(_)
dedupe(list) ==
    IF list = <<>> THEN <<>>
    ELSE LET front == dedupe(SubSeq(list, 1, Len(list) - 1))
             last == list[Len(list)]
         IN  IF \E k \in DOMAIN front : front[k] = last
             THEN front ELSE Append(front, last)

\* the words of q followed by ':', left to right
RECURSIVE ColonWordsFrom(_, _)
ColonWordsFrom(q, i) ==
    IF i > Len(q) THEN <<>>
    ELSE IF i \in ColonWordStarts(q)
         THEN <<ColonWordAt(q, i)>> \o ColonWordsFrom(q, i + 1)
         ELSE ColonWordsFrom(q, i + 1)

\* the offending names of q, each once, in the order of first occurrence
OffendingOnce(q) ==
    LET offending(w) == w \notin AllowedNames
    IN  dedupe(SelectSeq(ColonWordsFrom(q, 1), offending))

\* C13: when validation fails for unknown fields, the error lists every
\* offending name exactly once, in the order of first occurrence, followed
\* by the full list of allowed names.
C13_OffendingNamesListedOnce ==
    (op = "validated" /\ output.isValid = FALSE
        /\ IsPrefix(E_InvalidFields, output.error[1]))
        => output.error[1] =
              E_InvalidFields \o join(OffendingOnce(query), <<",", " ">>)
                  \o E_ValidFields \o join(validFields, <<",", " ">>)

(***************************************************************************)
(* SpecHighlight: the highlighter on every text and every term over a      *)
(* small alphabet with both cases of a letter and a pattern character.     *)
(***************************************************************************)
MaxTextLen == 4

MaxTermLen == 2

HighlightAlphabet == {"a", "A", "b", "."}

HighlightTexts == UNION {[1..n -> HighlightAlphabet] : n \in 0..MaxTextLen}

HighlightTerms == UNION {[1..n -> HighlightAlphabet] : n \in 0..MaxTermLen}

InitHighlight ==
    /\ query \in HighlightTerms
    /\ target \in HighlightTexts
    /\ parsed = emptyResult
    /\ items = <<>>
    /\ result = <<>>
    /\ base = <<>>
    /\ output = <<>>
    /\ timeZone = 0
    /\ app = NoApp
    /\ op = "init"

\* SearchParser.highlight(text, query)
Highlight ==
    /\ op = "init"
    /\ output' = highlight(target, query)
    /\ op' = "highlighted"
    /\ UNCHANGED <<query, parsed, items, result, base, target, timeZone, app>>

NextHighlight == Highlight

SpecHighlight == InitHighlight /\ [][NextHighlight]_vars

\* the pieces of a highlighted text, left to right: the stretches outside
\* the markers (marked FALSE) and the stretches wrapped in them (marked TRUE)
RECURSIVE pieces(_)
pieces(out) ==
    LET open == indexOf(out, MarkOpen)
    IN  IF open = 0 THEN <<[marked |-> FALSE, str |-> out]>>
        ELSE LET rest == SubSeq(out, open + Len(MarkOpen), Len(out))
                 close == indexOf(rest, MarkClose)
             IN  <<[marked |-> FALSE, str |-> SubSeq(out, 1, open - 1)],
                   [marked |-> TRUE, str |-> SubSeq(rest, 1, close - 1)]>>
                     \o pieces(SubSeq(rest, close + Len(MarkClose), Len(rest)))

\* a highlighted text with the markers taken out
RECURSIVE unmark(_)
unmark(ps) ==
    IF ps = <<>> THEN <<>> ELSE Head(ps).str \o unmark(Tail(ps))

\* C14: highlight(text, term) is text when term is empty; otherwise every
\* wrapped stretch is term up to letter case, no stretch outside the markers
\* holds term in any letter case, and the output without its markers is
\* text.
C14_HighlightWrapsLiteralOccurrences ==
    op = "highlighted" =>
        IF query = <<>> THEN output = target
        ELSE LET ps == pieces(output)
             IN  /\ unmark(ps) = target
                 /\ \A k \in DOMAIN ps :
                       IF ps[k].marked
                       THEN toLowerCase(ps[k].str) = toLowerCase(query)
                       ELSE ~includes(toLowerCase(ps[k].str),
                                      toLowerCase(query))

\* C14's case: a term with a pattern character found in another letter case
\* in a text that also holds a near miss
C14_Witness ==
    /\ op = "highlighted"
    /\ "." \in Range(query)
    /\ output # target
    /\ \E k \in DOMAIN pieces(output) :
          /\ pieces(output)[k].marked
          /\ pieces(output)[k].str # query
    /\ \E k \in DOMAIN pieces(output) :
          /\ ~pieces(output)[k].marked
          /\ pieces(output)[k].str # <<>>

(***************************************************************************)
(* SpecSuggest: the suggestion generator on partial queries with short and *)
(* long last words, over collections with repeated titles, tags and types  *)
(* and with more matching values than the generator returns.               *)
(***************************************************************************)
MaxSuggestItems == 3

S1 ==
    [id |-> 11, title |-> <<"N","o","t","e","s">>,
     content |-> <<>>,
     tags |-> <<<<"n","o","t","e">>,
               <<"N","o","t","e","s">>,
               <<"b">>>>,
     contentType |-> W_note,
     createdAt |-> D_Jan15, updatedAt |-> D_Jan15]

S2 ==
    [id |-> 12, title |-> <<"N","O","T","E","S">>,
     content |-> <<>>,
     tags |-> <<<<"a","n","n","o">>,
               <<"n","o","t","e">>,
               <<"n","o","t","a">>,
               <<"k","n","o","t">>>>,
     contentType |-> W_note,
     createdAt |-> D_Jan15, updatedAt |-> D_Jan15]

S3 ==
    [id |-> 13, title |-> <<"N","o","t","e","s">>,
     content |-> <<>>,
     tags |-> <<<<"n","o">>,
               <<"s","n","o","w">>>>,
     contentType |-> W_document,
     createdAt |-> D_Jan15, updatedAt |-> D_Jan15]

S4 ==
    [id |-> 14, title |-> <<"K","n","o","w">>,
     content |-> <<>>,
     tags |-> <<<<"n","o","p","e">>,
               <<"k","n","o","w">>,
               <<"b">>,
               <<"n","o","r">>>>,
     contentType |-> W_note,
     createdAt |-> D_Jan15, updatedAt |-> D_Jan15]

\* a record whose title holds a word followed by ':'
S5 ==
    [id |-> 15, title |-> <<"N","o","t","e","s"," ","t","y","p","e",":"," ","p","l","a","n">>,
     content |-> <<>>,
     tags |-> <<<<"b">>>>,
     contentType |-> W_document,
     createdAt |-> D_Jan15, updatedAt |-> D_Jan15]

SuggestPool == {S1, S2, S3, S4, S5}

SuggestLists == UNION {[1..n -> SuggestPool] : n \in 0..MaxSuggestItems}

\* '', 'n', 'no', 'NO', 'no ', 'x no', 'x  n', 'ot', 'a\tNo', 'cu'
SuggestQueries ==
    {<<>>,
     <<"n">>,
     <<"n","o">>,
     <<"N","O">>,
     <<"n","o"," ">>,
     <<"x"," ","n","o">>,
     <<"x"," "," ","n">>,
     <<"o","t">>,
     <<"a","\t","N","o">>,
     <<"c","u">>}

InitSuggest ==
    /\ query \in SuggestQueries
    /\ items \in SuggestLists
    /\ parsed = emptyResult
    /\ result = <<>>
    /\ base = <<>>
    /\ target = <<>>
    /\ output = <<>>
    /\ timeZone = 0
    /\ app = NoApp
    /\ op = "init"

\* SearchParser.getSuggestions(query, items)
GetSuggestions ==
    /\ op = "init"
    /\ output' = getSuggestions(query, items)
    /\ op' = "suggested"
    /\ UNCHANGED <<query, parsed, items, result, base, target, timeZone, app>>

\* SearchParser.filter(items, SearchParser.parse(suggestion)) for one of the
\* suggestions returned
RunSuggestion ==
    \E k \in DOMAIN output :
        /\ op = "suggested"
        /\ target' = output[k]
        /\ parsed' = parse(output[k])
        /\ result' = filter(items, parse(output[k]))
        /\ op' = "ran"
        /\ UNCHANGED <<query, items, base, output, timeZone, app>>

NextSuggest == GetSuggestions \/ RunSuggestion

SpecSuggest == InitSuggest /\ [][NextSuggest]_vars

\* the last whitespace-delimited token of q: what follows its last
\* whitespace character
LastToken(q) ==
    LET at == {i \in DOMAIN q : IsSpace(q[i])}
    IN  IF at = {} THEN q ELSE SubSeq(q, Max(at) + 1, Len(q))

\* the values of a list that hold the token in any letter case, each once, in
\* the order of first occurrence
MatchingValues(values, token) ==
    LET hit(v) == includes(toLowerCase(v), toLowerCase(token))
    IN  dedupe(SelectSeq(values, hit))

\* every suggestion for the token, titles then tags then types
AllSuggestions(token, list) ==
    LET titles == MatchingValues([i \in DOMAIN list |-> list[i].title], token)
        tags == MatchingValues(flatTags(list), token)
        types ==
            MatchingValues([i \in DOMAIN list |-> list[i].contentType], token)
    IN  [i \in DOMAIN titles |->
            W_title \o <<":", "\"">> \o titles[i] \o <<"\"">>]
            \o [i \in DOMAIN tags |-> W_tags \o <<":">> \o tags[i]]
            \o [i \in DOMAIN types |-> W_type \o <<":">> \o types[i]]

\* C15: getSuggestions never returns more than 10 entries, and returns the
\* empty sequence when the last whitespace-delimited token of the partial
\* query has fewer than 2 characters (an empty query and a query that ends
\* in whitespace included).
C15_AtMostTenNoneForShortToken ==
    op = "suggested" =>
        /\ Len(output) <= 10
        /\ Len(LastToken(query)) < 2 => output = <<>>

\* C15's case: more than 10 values match and 10 suggestions come back
C15_Witness ==
    /\ op = "suggested"
    /\ Len(AllSuggestions(LastToken(query), items)) > 10
    /\ Len(output) = 10

\* C16: the suggestion list is the first 10 of the title suggestions, then
\* the tag suggestions, then the type suggestions, one per distinct value
\* whose lowercase form holds the lowercase last token, in the order of the
\* value's first occurrence in the collection; no suggestion appears twice.
C16_TitlesTagsTypesInFirstOccurrenceOrder ==
    (op = "suggested" /\ Len(LastToken(query)) >= 2) =>
        LET all == AllSuggestions(LastToken(query), items)
        IN  /\ output = SubSeq(all, 1, Min({10, Len(all)}))
            /\ \A i, j \in DOMAIN output : output[i] = output[j] => i = j

\* C16's case: a collection with a repeated title, a repeated tag and a
\* repeated type, all matching, and suggestions of the three kinds
C16_Witness ==
    /\ op = "suggested"
    /\ \E i, j \in DOMAIN items :
          i < j /\ items[i].title = items[j].title /\ items[i] # items[j]
    /\ \E i, j \in DOMAIN items :
          /\ i < j
          /\ items[i].contentType = items[j].contentType
          /\ items[i] # items[j]
          /\ \E t \in Range(items[i].tags) \cap Range(items[j].tags) :
                tagSuggestion(t) \in Range(output)
    /\ \E i, j, k \in DOMAIN output :
          /\ i < j
          /\ j < k
          /\ IsPrefix(W_title, output[i])
          /\ IsPrefix(W_tags, output[j])
          /\ IsPrefix(W_type, output[k])

(***************************************************************************)
(* Properties of Spec: the extent of a clause's value                      *)
(***************************************************************************)

\* a word without ':' and without quotes
IsPlainWord(w) == w # <<>> /\ \A i \in DOMAIN w : w[i] # ":" /\ ~IsQuote(w[i])

\* a word name:rest, name made of word characters and rest a plain word
IsClauseHead(w) ==
    LET c == indexOf(w, <<":">>)
    IN  /\ c > 1
        /\ \A i \in 1..(c - 1) : IsWordChar(w[i])
        /\ IsPlainWord(SubSeq(w, c + 1, Len(w)))

HeadName(w) == SubSeq(w, 1, indexOf(w, <<":">>) - 1)

HeadRest(w) == SubSeq(w, indexOf(w, <<":">>) + 1, Len(w))

\* the queries made of clause heads and plain words that start with a head
IsClauseText(q) ==
    LET ws == WordsFrom(q, 1)
    IN  /\ ws # <<>>
        /\ IsClauseHead(ws[1])
        /\ \A k \in DOMAIN ws : IsClauseHead(ws[k]) \/ IsPlainWord(ws[k])

\* the value of the head at word k: its rest and the plain words after it,
\* up to the next head or the end
ExtendedValue(ws, k) ==
    LET later == {j \in DOMAIN ws : j > k /\ IsClauseHead(ws[j])}
        stop == IF later = {} THEN Len(ws) + 1 ELSE Min(later)
    IN  joinWithSpace(<<HeadRest(ws[k])>> \o SubSeq(ws, k + 1, stop - 1))

C17_DocumentOrNoteReturnsBoth ==
    (op = "filtered" /\ query = Q_TypeDocumentOrNote) =>
        LET wanted(item) == item.contentType \in {W_document, W_note}
        IN  result = SelectSeq(items, wanted)

\* C18: filter(items, parse('tags:design AND NOT type:video')) returns
\* exactly the items that have a tag containing 'design' and whose
\* contentType is not video.
C18_DesignNotVideoReturnsDesignNonVideos ==
    (op = "filtered" /\ query = Q_DesignNotVideo) =>
        LET wanted(item) ==
                /\ \E t \in DOMAIN item.tags :
                      includes(toLowerCase(item.tags[t]), W_design)
                /\ item.contentType # W_video
        IN  result = SelectSeq(items, wanted)

\* the comparison operators of a date filter: > < >= <= =
DateOperators == {<<">">>, <<"<">>, <<">","=">>, <<"<","=">>, <<"=">>}

\* C20: every entry parse puts into dateFilters has field created or updated
\* and operator one of > < >= <= =.
C20_StoredOperatorsAreTheFive ==
    Parsed =>
        \A d \in DOMAIN parsed.dateFilters :
            /\ parsed.dateFilters[d].field \in DateFields
            /\ parsed.dateFilters[d].operator \in DateOperators

(***************************************************************************)
(* Properties of SpecFilter: the title, content and date predicates        *)
(***************************************************************************)

\* C21: with a title or content clause in the query, a record is kept only
\* if its title, or its content, contains the clause value in any letter
\* case; a record without content is never kept under a content clause.
C21_TitleContentClausesRequireContainment ==
    op \in {"extended", "refiltered"} =>
        \A k \in DOMAIN result :
            /\ (W_title \in DOMAIN parsed.fields
                    /\ parsed.fields[W_title].kind = "string")
                  => includes(toLowerCase(result[k].title),
                              toLowerCase(parsed.fields[W_title].str))
            /\ (W_content \in DOMAIN parsed.fields
                    /\ parsed.fields[W_content].kind = "string")
                  => /\ result[k].content # <<>>
                     /\ includes(toLowerCase(result[k].content[1]),
                                 toLowerCase(parsed.fields[W_content].str))

(***************************************************************************)
(* SpecDates: the evaluator on date filters alone, one or several, on the  *)
(* same field or on both, in runtimes west of, at and east of UTC.         *)
(***************************************************************************)
MaxDateFilters == 2

MaxDateItems == 2

\* a record created late in the evening (UTC) of January 14
R4 ==
    [id |-> 4, title |-> <<"L","a","t","e">>, content |-> <<>>,
     tags |-> <<>>, contentType |-> W_note,
     createdAt |-> D_Jan14Late, updatedAt |-> D_Jan15]

DateItemLists == UNION {[1..n -> {R1, R2, R3, R4}] : n \in 1..MaxDateItems}

DateEntries ==
    {DateFilter(W_created, <<">">>, D_Jan14),
     DateFilter(W_created, <<"<">>, D_Jan15),
     DateFilter(W_created, <<">","=">>, D_Jan14Late),
     DateFilter(W_created, <<"<","=">>, D_Jan15Day),
     DateFilter(W_created, <<"=">>, D_Jan15Day),
     DateFilter(W_created, <<"=">>, D_Jan14),
     DateFilter(W_updated, <<"=">>, D_Jan15),
     DateFilter(W_updated, <<">">>, <<"a">>)}

DateQueries ==
    {[emptyResult EXCEPT !.dateFilters = fs] :
        fs \in UNION {[1..n -> DateEntries] : n \in 1..MaxDateFilters}}

\* New York (winter), UTC, India
TimeZones == {-300, 0, 330}

InitDates ==
    /\ query = <<>>
    /\ parsed \in DateQueries
    /\ items \in DateItemLists
    /\ result = <<>>
    /\ base = <<>>
    /\ target = <<>>
    /\ output = <<>>
    /\ timeZone \in TimeZones
    /\ app = NoApp
    /\ op = "init"

\* SearchParser.filter(items, parsedQuery)
FilterDates ==
    /\ op = "init"
    /\ result' = filter(items, parsed)
    /\ op' = "dated"
    /\ UNCHANGED <<query, parsed, items, base, target, output, timeZone, app>>

NextDates == FilterDates

SpecDates == InitDates /\ [][NextDates]_vars

\* the calendar day, in the runtime's zone, of an instant given in minutes
LocalDay(t) == (t + timeZone) \div 1440

\* a record satisfies a date filter entry
SatisfiesEntry(item, d) ==
    LET itemTime == DateValue(IF d.field = W_created
                              THEN item.createdAt ELSE item.updatedAt)
        filterTime == DateValue(d.value)
    IN  /\ itemTime # NaN
        /\ filterTime # NaN
        /\ CASE d.operator = <<">">> -> itemTime > filterTime
             [] d.operator = <<"<">> -> itemTime < filterTime
             [] d.operator = <<">","=">> -> itemTime >= filterTime
             [] d.operator = <<"<","=">> -> itemTime <= filterTime
             [] d.operator = <<"=">> -> LocalDay(itemTime) = LocalDay(filterTime)

\* C22: a record is kept only if it satisfies every entry of dateFilters,
\* also when several entries name the same field: > < >= <= compare the
\* record's full timestamp with the filter value's timestamp, and = holds
\* exactly when both fall on the same calendar date, whatever the time of
\* day.
C22_EveryDateFilterApplies ==
    op = "dated" =>
        LET kept(item) ==
                \A k \in DOMAIN parsed.dateFilters :
                    SatisfiesEntry(item, parsed.dateFilters[k])
        IN  result = SelectSeq(items, kept)

\* C22's case: two entries on created, one of them = with a date, keep a
\* record created at another time of that day and drop another record
C22_Witness ==
    /\ op = "dated"
    /\ Len(parsed.dateFilters) = 2
    /\ parsed.dateFilters[1].field = parsed.dateFilters[2].field
    /\ parsed.dateFilters[1].operator = <<"=">>
    /\ parsed.dateFilters[2].operator # <<"=">>
    /\ Len(result) = 1
    /\ Len(items) = 2
    /\ DateValue(result[1].createdAt) # DateValue(parsed.dateFilters[1].value)

(***************************************************************************)
(* Properties of Spec: the validator against the extractor                 *)
(***************************************************************************)

\* the field names parse extracted: the keys of fields and the fields of the
\* date filters
ExtractedNames(pq) ==
    DOMAIN pq.fields \cup {pq.dateFilters[k].field : k \in DOMAIN pq.dateFilters}

\* C24: whenever validateQuery(q) reports valid, every field name that
\* parse(q) extracts is one of title, content, tags, type, created, updated.
C24_ValidQueriesExtractAllowedNames ==
    (Parsed /\ validateQuery(query).isValid) =>
        ExtractedNames(parsed) \subseteq AllowedNames

\* C24's case: a valid query with several clauses, fields and date filters
C24_Witness ==
    /\ Parsed
    /\ validateQuery(query).isValid
    /\ Len(Clauses) >= 3
    /\ DOMAIN parsed.fields # {}
    /\ parsed.dateFilters # <<>>
    /\ ExtractedNames(parsed) \subseteq AllowedNames

\* C25: every non-empty query with an even number of double quotes for which
\* all field names extracted by parse are allowed names is reported valid by
\* validateQuery, also when a clause value itself contains ':'.
C25_AllowedExtractedNamesAreValid ==
    (/\ Parsed
     /\ trim(query) # <<>>
     /\ Cardinality({i \in DOMAIN query : query[i] = "\""}) % 2 = 0
     /\ ExtractedNames(parsed) \subseteq AllowedNames)
        => validateQuery(query).isValid

\* the value text of a clause before the quotes are looked at
RawValue(m) == trim(SubSeq(m, indexOf(m, <<":">>) + 1, Len(m)))

\* v with a matching pair of quotes at its two ends taken off
WithoutMatchingPair(v) ==
    IF Len(v) >= 2 /\ IsQuote(v[1]) /\ v[Len(v)] = v[1]
    THEN SubSeq(v, 2, Len(v) - 1)
    ELSE v

\* C26: parse strips quotes from a clause value only when the value begins
\* and ends with the same quote character; a value with one unmatched
\* leading or trailing quote, or with different quote characters at its two
\* ends, is stored unchanged.
C26_OnlyMatchingQuotePairStripped ==
    (/\ Parsed
     /\ Len(Clauses) = 1
     /\ matchField(Clauses[1]) \notin DateFields \cup {W_tags})
        => parsed.fields[matchField(Clauses[1])] =
              Str(WithoutMatchingPair(RawValue(Clauses[1])))

(***************************************************************************)
(* Properties of SpecSuggest: a suggestion run as a query                  *)
(***************************************************************************)

\* the record has the title, a tag or the type the suggestion was made from
Produces(item, suggestion) ==
    \/ suggestion = titleSuggestion(item.title)
    \/ \E t \in DOMAIN item.tags : suggestion = tagSuggestion(item.tags[t])
    \/ suggestion = typeSuggestion(item.contentType)

\* C27: for every suggestion s returned by getSuggestions(partialQuery,
\* records), filter(records, parse(s)) is non-empty and contains every record
\* whose title, tag or contentType produced s.
C27_SuggestionFindsItsRecords ==
    op = "ran" =>
        /\ result # <<>>
        /\ \A i \in DOMAIN items :
              Produces(items[i], target) => items[i] \in Range(result)

(***************************************************************************)
(* SpecApp: the App component after sign-in, driven by the events of its   *)
(* search bar, sidebar, filter and sort controls, add dialog and grid.     *)
(* items is contentItems, result is filteredItems, query is searchQuery;   *)
(* app holds filters, sortConfig, previewItem, previewOpen, the number of  *)
(* items added and the ids handleItemDelete was called with.  A handler    *)
(* and the effect its state changes trigger are one step.                  *)
(***************************************************************************)
MaxAdds == 1
MaxDeletes == 1

\* 'tags:javascript'
Q_TagsJavascript == W_tags \o <<":">> \o W_javascript

\* the query submitted in the search bar
AppQueries == {Q_TagsJavascript}

\* the ids of the sidebar's filter buttons
SidebarFilters == {<<"a","l","l">>, W_note}

\* the content types toggled, the tags typed and the days picked in the
\* advanced filters
ToggledTypes == {W_note}
TypedTags == {W_javascript}
PickedDays == {D_Jan13Start}
\* the sort fields chosen: the items of the model differ in them
SortFields == {"updatedAt", "title"}

without(list, x) ==
    LET other(y) == y # x
    IN  SelectSeq(list, other)

\* the state after the sign-in effects and the first run of the filter/sort
\* effect on the mock items
InitApp ==
    /\ query = <<>>
    /\ items = mockItems
    /\ result = filterSortEffect(mockItems, <<>>, NoFilters, DefaultSort)
    /\ app = [filters |-> NoFilters, sortConfig |-> DefaultSort,
              previewItem |-> <<>>, previewOpen |-> FALSE,
              added |-> 0, deleted |-> {}]
    /\ parsed = emptyResult
    /\ base = <<>>
    /\ target = <<>>
    /\ output = <<>>
    /\ timeZone = 0
    /\ op = "init"

\* handleSearch(q) and the effect, which runs when searchQuery changed.  The
\* search bar submits non-blank queries only; the search summary, shown
\* while searchQuery is not empty, clears the search with handleSearch('').
Search ==
    \E q \in AppQueries \cup {<<>>} :
        /\ IF q = <<>> THEN query # <<>> ELSE trim(q) # <<>>
        /\ query' = q
        /\ result' = IF q # query
                     THEN filterSortEffect(items, q, app.filters, app.sortConfig)
                     ELSE searchHandlerList(items, q)
        /\ op' = IF q = <<>> THEN "clear" ELSE "search"
        /\ UNCHANGED <<parsed, items, base, target, output, timeZone, app>>

\* handleFilterClick of the sidebar, which calls handleFilterChange; no
\* dependency of the effect changes
SidebarFilter ==
    \E filterId \in SidebarFilters :
        /\ result' = filterHandlerList(items,
                        IF filterId = <<"a","l","l">> THEN <<>> ELSE <<filterId>>)
        /\ op' = "sidebar"
        /\ UNCHANGED <<query, parsed, items, base, target, output, timeZone, app>>

\* the filter and sort controls are part of the grid, which shows them only
\* when it has items
ControlsShown == result # <<>>

\* handleContentTypeChange of the advanced filters: the filters it hands to
\* onFiltersChange
contentTypeChanged(filters, type) ==
    [filters EXCEPT !.contentType =
        IF \E k \in DOMAIN @ : @[k] = type
        THEN without(@, type) ELSE Append(@, type)]

\* handleTagAdd: it hands on filters only for a non-blank tag not yet there
tagAdded(filters, tag) ==
    IF trim(tag) # <<>> /\ \A k \in DOMAIN filters.tags : filters.tags[k] # tag
    THEN {[filters EXCEPT !.tags = Append(@, tag)]}
    ELSE {}

\* handleTagRemove
tagRemoved(filters, tag) == [filters EXCEPT !.tags = without(@, tag)]

\* handleDateRangeChange('start', date)
startDateChanged(filters, date) ==
    [filters EXCEPT !.dateRange =
        IF @ = <<>> THEN <<[start |-> date, end |-> <<>>]>>
        ELSE <<[@[1] EXCEPT !.start = date]>>]

\* the filters the advanced filters hand to onFiltersChange, clearFilters
\* included
filtersOffered(filters) ==
    {contentTypeChanged(filters, type) : type \in ToggledTypes}
        \cup UNION {tagAdded(filters, tag) : tag \in TypedTags}
        \cup {tagRemoved(filters, filters.tags[k]) : k \in DOMAIN filters.tags}
        \cup {startDateChanged(filters, date) : date \in PickedDays}
        \cup {NoFilters}

\* handleFiltersChange(newFilters) and the effect it triggers
FiltersChange ==
    \E newFilters \in filtersOffered(app.filters) :
        /\ ControlsShown
        /\ app' = [app EXCEPT !.filters = newFilters]
        /\ result' = filterSortEffect(items, query, newFilters, app.sortConfig)
        /\ op' = "filters"
        /\ UNCHANGED <<query, parsed, items, base, target, output, timeZone>>

\* the sorts the sort controls hand to onSortChange: a field chosen, or the
\* direction turned
sortsOffered(currentSort) ==
    {[currentSort EXCEPT !.field = field] : field \in SortFields}
        \cup {[currentSort EXCEPT !.direction =
                    IF @ = "asc" THEN "desc" ELSE "asc"]}

\* handleSortChange(sort) and the effect it triggers
SortChange ==
    \E sort \in sortsOffered(app.sortConfig) :
        /\ ControlsShown
        /\ app' = [app EXCEPT !.sortConfig = sort]
        /\ result' = filterSortEffect(items, query, app.filters, sort)
        /\ op' = "sort"
        /\ UNCHANGED <<query, parsed, items, base, target, output, timeZone>>

\* handleAddContent and the effect the new contentItems triggers
AddContent ==
    /\ app.added < MaxAdds
    /\ LET newItem == NewItem(app.added + 1)
       IN  /\ items' = <<newItem>> \o items
           /\ result' = filterSortEffect(<<newItem>> \o items, query,
                                         app.filters, app.sortConfig)
    /\ app' = [app EXCEPT !.added = @ + 1]
    /\ op' = "add"
    /\ UNCHANGED <<query, parsed, base, target, output, timeZone>>

\* handleItemDelete without the effect: the displayed list is left as it was
DeleteItemStale ==
    \E k \in DOMAIN result :
        /\ Cardinality(app.deleted) < MaxDeletes
        /\ items' = withoutItem(items, result[k])
        /\ app' = [app EXCEPT !.deleted = @ \cup {result[k].id}]
        /\ op' = "delete"
        /\ UNCHANGED <<query, parsed, result, base, target, output, timeZone>>

\* handleItemDelete of an item of the grid and the effect the new
\* contentItems triggers
DeleteItem ==
    \E k \in DOMAIN result :
        /\ Cardinality(app.deleted) < MaxDeletes
        /\ items' = withoutItem(items, result[k])
        /\ result' = filterSortEffect(withoutItem(items, result[k]), query,
                                      app.filters, app.sortConfig)
        /\ app' = [app EXCEPT !.deleted = @ \cup {result[k].id}]
        /\ op' = "delete"
        /\ UNCHANGED <<query, parsed, base, target, output, timeZone>>

NextApp ==
    \/ Search
    \/ SidebarFilter
    \/ FiltersChange
    \/ SortChange
    \/ AddContent
    \/ DeleteItem

SpecApp == InitApp /\ [][NextApp]_vars

\* C23: after every event and its effects, filteredItems is contentItems
\* filtered by parse(searchQuery) when searchQuery is not blank, then by the
\* advanced filters, then sorted by sortConfig.
C23_DisplayedListIsFilteredAndSorted ==
    result = filterSortEffect(items, query, app.filters, app.sortConfig)

\* C28: every displayed item is an item of contentItems, and no item
\* handleItemDelete was called with is displayed.
C28_DisplayedItemsAreContentItems ==
    \A k \in DOMAIN result :
        /\ \E j \in DOMAIN items : items[j] = result[k]
        /\ result[k].id \notin app.deleted

\* a deleted item's type is chosen in the sidebar, or its query re-submitted,
\* and other items are displayed
C28_Witness ==
    /\ app.deleted # {}
    /\ op \in {"sidebar", "search"}
    /\ result # <<>>
    /\ Len(result) < Len(items)

(***************************************************************************)
(* SpecPreview: the App component with its preview modal.  The modal is a  *)
(* dialog: while it is open the page behind it takes no events.            *)
(***************************************************************************)
\* handleItemClick(item): the two state changes
itemClicked(state, item) ==
    [state EXCEPT !.previewItem = <<item>>, !.previewOpen = TRUE]

\* a card of the grid is clicked
ItemClick ==
    \E k \in DOMAIN result :
        /\ ~app.previewOpen
        /\ app' = itemClicked(app, result[k])
        /\ op' = "click"
        /\ UNCHANGED <<query, parsed, items, result, base, target, output, timeZone>>

\* the modal is dismissed: onOpenChange(false) is setPreviewOpen(false)
ClosePreview ==
    /\ app.previewOpen
    /\ app.previewItem # <<>>
    /\ app' = [app EXCEPT !.previewOpen = FALSE]
    /\ op' = "close"
    /\ UNCHANGED <<query, parsed, items, result, base, target, output, timeZone>>

\* the modal's Delete button: onDelete(item) is handleItemDelete(item), and
\* the effect the new contentItems triggers
ModalDelete ==
    /\ app.previewOpen
    /\ app.previewItem # <<>>
    /\ Cardinality(app.deleted) < MaxDeletes
    /\ LET item == app.previewItem[1]
       IN  /\ items' = withoutItem(items, item)
           /\ result' = filterSortEffect(withoutItem(items, item), query,
                                         app.filters, app.sortConfig)
           /\ app' = [app EXCEPT !.deleted = @ \cup {item.id}]
    /\ op' = "modalDelete"
    /\ UNCHANGED <<query, parsed, base, target, output, timeZone>>

\* Delete in the menu of a card: onItemDelete(item) is handleItemDelete(item).
\* The menu item does not stop the click, the menu's trigger does: whether
\* the click also reaches the card's onClick (handleItemClick) is left to
\* the menu component.
GridDelete ==
    \E k \in DOMAIN result : \E reachesCard \in BOOLEAN :
        /\ ~app.previewOpen
        /\ Cardinality(app.deleted) < MaxDeletes
        /\ items' = withoutItem(items, result[k])
        /\ result' = filterSortEffect(withoutItem(items, result[k]), query,
                                      app.filters, app.sortConfig)
        /\ app' = [(IF reachesCard THEN itemClicked(app, result[k]) ELSE app)
                      EXCEPT !.deleted = @ \cup {result[k].id}]
        /\ op' = "gridDelete"
        /\ UNCHANGED <<query, parsed, base, target, output, timeZone>>

\* the events of the page behind the modal
PageEvent ==
    /\ ~app.previewOpen
    /\ \/ Search
       \/ SidebarFilter
       \/ AddContent

NextPreview ==
    \/ ItemClick
    \/ ClosePreview
    \/ ModalDelete
    \/ GridDelete
    \/ PageEvent

SpecPreview == InitApp /\ [][NextPreview]_vars

\* C29: while the preview modal is open the previewed item is an item of
\* contentItems; deleting the previewed item closes the modal or clears
\* previewItem.
C29_OpenPreviewShowsContentItem ==
    app.previewOpen =>
        /\ app.previewItem # <<>>
        /\ \E j \in DOMAIN items : items[j] = app.previewItem[1]
====
